---- MODULE Spec2Model ----
(***************************************************************************)
(* A model of the QICK program builders.                                   *)
(*                                                                         *)
(*   QickProgramV2 (qick_lib/qick/asm_v2.py): instruction list with        *)
(*   program addresses, labels, data registers, loops, pulse scheduling,   *)
(*   triggers and sync_all.                                                *)
(*   QickProgram   (qick_lib/qick/qick_asm.py): instruction list, labels,  *)
(*   per-channel DAC timestamps, pulse macros, align, sync_all, compile.   *)
(*                                                                         *)
(* One builder object is modelled; cls says which class it is an instance  *)
(* of.  Python strings that only print a number (str(t), f'&{addr}') are   *)
(* kept as the number they print.                                          *)
(***************************************************************************)
EXTENDS Integers, Sequences, FiniteSets, TLC

VARIABLES
    cls,            \* "V2" (QickProgramV2) or "V1" (QickProgram)
    prog_list,      \* self.prog_list
    labels,         \* self.labels
    p_addr,         \* V2: self.p_addr
    line,           \* V2: self.line
    user_regs,      \* V2: self._user_regs (list of allocated addresses)
    user_reg_dict,  \* V2: self.user_reg_dict (name -> register address)
    loop_list,      \* V2: self.loop_list
    loop_stack,     \* V2: self.loop_stack
    gen_ts,         \* V2: generator timestamps (get_timestamp(gen_ch=...))
    ro_ts,          \* V2: readout timestamps (get_timestamp(ro_ch=...))
    dac_ts,         \* V1: self.dac_ts
    last_pulse,     \* V1: self.channels[ch]['last_pulse']
    last,           \* the last call made on the builder, and how it ended
    auto_hist,      \* per channel: lengths of the pulses scheduled with
                    \* t='auto' while no other call touched its timestamp
    open_hist,      \* V2: the loops opened and not yet closed, oldest first,
                    \* each with the label address and the counter register
                    \* its open_loop call left
    waves,          \* V2: self.waves, an OrderedDict: the (name, wave) items
    wave2idx,       \* V2: self.wave2idx
    pulses,         \* V2: self.pulses
    envelopes,      \* V2: self.envelopes[ch], the dict each generator manager holds
    mgr_addr,       \* V2: self._gen_mgrs[ch].addr
    heap,           \* two builders side by side: every list and dict that
                    \* exists, by the identity of the object
    soc             \* the registers of the driver blocks that move data by DMA

vars == <<cls, prog_list, labels, p_addr, line, user_regs, user_reg_dict,
          loop_list, loop_stack, gen_ts, ro_ts, dac_ts, last_pulse,
          last, auto_hist, open_hist, waves, wave2idx, pulses, envelopes, mgr_addr,
          heap, soc>>

v2vars == <<p_addr, line, user_regs, user_reg_dict, loop_list, loop_stack,
            gen_ts, ro_ts, open_hist>>

v1vars == <<dac_ts, last_pulse>>

libvars == <<waves, wave2idx, pulses, envelopes, mgr_addr>>

extvars == <<heap, soc>>

(***************************************************************************)
(* Bounds of the model.                                                    *)
(***************************************************************************)
MaxProg == 5        \* longest instruction list explored
MaxTs == 8          \* largest channel timestamp explored
MaxLoops == 2       \* most loops opened in one program
MaxV1 == 4          \* longest QickProgram instruction list explored
MaxSched == 8       \* longest instruction list explored when only scheduling
MaxLoopProg == 6    \* longest instruction list explored for registers and loops
MaxEnc == 1         \* longest instruction list explored when encoding
MaxWaves == 2       \* most waves in the wave table
MaxEnvAddr == 8     \* most envelope samples stored for one generator
MaxLibProg == 2     \* longest instruction list explored with the pulse library

(***************************************************************************)
(* Helpers.                                                                *)
(***************************************************************************)
Max(S) == CHOOSE x \in S : \A y \in S : y <= x

RECURSIVE SumSeq(_)
SumSeq(s) == IF s = <<>> THEN 0 ELSE Head(s) + SumSeq(Tail(s))

IsPrefix(s, t) == Len(s) <= Len(t) /\ SubSeq(t, 1, Len(s)) = s

\* Python's int() of the rational num/den (den > 0): truncation toward zero.
IntTrunc(num, den) == IF num >= 0 THEN num \div den ELSE -((-num) \div den)

(***************************************************************************)
(* Configuration read by QickProgramV2 (soccfg, tproccfg) and the pulse    *)
(* and readout declarations made before scheduling starts.                 *)
(***************************************************************************)
GenChs == {0, 1}
RoChs == {0, 1}

\* self.tproccfg['f_time']
f_time == 2

\* self.soccfg['gens'][ch]
gens ==
    [ch \in GenChs |->
        [f_fabric |-> IF ch = 0 THEN 2 ELSE 3, samps_per_clk |-> IF ch = 0 THEN 2 ELSE 1,
         maxv |-> 3, maxv_scale |-> 1]]

\* self.soccfg['readouts'][ro]
readouts ==
    [ro \in RoChs |->
        IF ro = 0
        THEN [trigger_type |-> "dport", trigger_port |-> 0, trigger_bit |-> 0,
              f_fabric |-> 2]
        ELSE [trigger_type |-> "tport", trigger_port |-> 1, trigger_bit |-> 0,
              f_fabric |-> 4]]

\* self.soccfg['tprocs'][0]['output_pins'][pin] = (porttype, portnum, pinnum, name)
output_pins ==
    [pin \in {0, 1, 2} |->
        CASE pin = 0 -> [porttype |-> "dport", portnum |-> 0, pinnum |-> 1]
          [] pin = 1 -> [porttype |-> "dport", portnum |-> 2, pinnum |-> 0]
          [] pin = 2 -> [porttype |-> "trig", portnum |-> 3, pinnum |-> 0]]

\* self.soccfg['tprocs'][0]['dreg_qty']
dreg_qty == 3

\* self.ro_chs[ro]['length'], as left by declare_readout
ro_chs == [ro \in RoChs |-> [length |-> 3]]

\* default of trigger()'s width parameter
DefaultWidth == 10

(***************************************************************************)
(* Timestamps of AbsQickProgram.                                           *)
(***************************************************************************)
\* get_timestamp(gen_ch=ch) / get_timestamp(ro_ch=ro)
get_timestamp(ts, ch) == ts[ch]

\* set_timestamp(val, gen_ch=ch) / set_timestamp(val, ro_ch=ro)
set_timestamp(ts, val, ch) == [ts EXCEPT ![ch] = val]

\* reset_timestamps()
reset_timestamps(ts) == [ch \in DOMAIN ts |-> 0]

\* get_max_timestamp(): the latest timestamp of all generators and readouts
get_max_timestamp(gts, rts) ==
    Max({gts[ch] : ch \in DOMAIN gts} \cup {rts[ro] : ro \in DOMAIN rts})

\* us2cycles(us) with no channel: microseconds to tProc clock cycles
us2cycles(us) == IntTrunc(us * f_time, 1)

(***************************************************************************)
(* QickProgramV2: the instruction list.                                    *)
(* pg is the triple of fields add_instruction touches.                     *)
(***************************************************************************)
Pg == [prog_list |-> prog_list, p_addr |-> p_addr, line |-> line]

\* a plausible slip: the new instruction is put in front of the list
add_instruction_prepend(pg, inst, addr_inc) ==
    [prog_list |-> <<inst @@ [P_ADDR |-> pg.p_addr, LINE |-> pg.line]>> \o pg.prog_list,
     p_addr |-> pg.p_addr + addr_inc,
     line |-> pg.line + 1]

\* add_instruction(inst, addr_inc=1)
add_instruction(pg, inst, addr_inc) ==
    [prog_list |-> Append(pg.prog_list,
                          inst @@ [P_ADDR |-> pg.p_addr, LINE |-> pg.line]),
     p_addr |-> pg.p_addr + addr_inc,
     line |-> pg.line + 1]

\* add_instruction for each dict of a list, in order
RECURSIVE add_instructions(_, _)
add_instructions(pg, insts) ==
    IF insts = <<>> THEN pg
    ELSE add_instructions(add_instruction(pg, Head(insts), 1), Tail(insts))

\* a plausible slip: WAIT counted as one program-memory word
wait_inst_one_word(pg, time) ==
    add_instruction(pg, [CMD |-> "WAIT", ADDR |-> pg.p_addr + 1, TIME |-> time], 1)

\* the instruction appended by wait(time)
wait_inst(pg, time) ==
    add_instruction(pg, [CMD |-> "WAIT", ADDR |-> pg.p_addr + 1, TIME |-> time], 2)

\* the instruction appended by end()
end_inst(pg) ==
    add_instruction(pg, [CMD |-> "JUMP", ADDR |-> pg.p_addr, UF |-> "0"], 1)

\* add_label(label): the value stored in self.labels[label]
add_label(lbls, label, plist) == (label :> <<"&", Len(plist) + 1>>) @@ lbls

Call(op, args, err) == [op |-> op, args |-> args, err |-> err]

SetPg(pg) ==
    /\ prog_list' = pg.prog_list
    /\ p_addr' = pg.p_addr
    /\ line' = pg.line

Record(op, args, err) == last' = Call(op, args, err)

(***************************************************************************)
(* QickProgramV2: data registers and loops.                                *)
(* An optional argument is <<>> when left at None and <<v>> when given.    *)
(***************************************************************************)
\* f"loop_{len(self.loop_list)}"
LoopName(k) == <<"loop_0", "loop_1", "loop_2", "loop_3", "loop_4">>[k + 1]

\* f"reg_page{addr}"
RegPageName(a) == <<"reg_page0", "reg_page1", "reg_page2", "reg_page3">>[a + 1]

\* str.upper() on the names used here
Upper(name) ==
    CASE name = "loop_0" -> "LOOP_0"
      [] name = "loop_1" -> "LOOP_1"
      [] name = "loop_2" -> "LOOP_2"
      [] name = "loop_3" -> "LOOP_3"
      [] name = "loop_4" -> "LOOP_4"
      [] name = "a" -> "A"
      [] OTHER -> name

\* a plausible slip: only the first allocated address is looked at
InList_first_only(x, lst) == lst # <<>> /\ lst[1] = x

\* x in lst
InList(x, lst) == \E i \in 1..Len(lst) : lst[i] = x

\* a plausible slip: the address after the highest allocated one is taken
first_free_after_last(uregs, a) ==
    IF uregs = <<>> THEN a ELSE Max({uregs[i] : i \in 1..Len(uregs)}) + 1

\* addr = 0; while addr in self._user_regs: addr += 1
RECURSIVE first_free(_, _)
first_free(uregs, a) == IF InList(a, uregs) THEN first_free(uregs, a + 1) ELSE a

\* a plausible slip: dreg_qty itself passes the range check
addr_out_of_range_off_by_one(a) == a < 0 \/ a > dreg_qty

\* addr < 0 or addr >= dreg_qty
addr_out_of_range(a) == a < 0 \/ a >= dreg_qty

\* new_reg(addr, name): the outcome, the two tables after the call, and the
\* address of the register
new_reg(uregs, udict, addr, name) ==
    LET a == IF addr = <<>> THEN first_free(uregs, 0) ELSE addr[1]
        fail(e) == [err |-> e, user_regs |-> uregs, user_reg_dict |-> udict, addr |-> a]
    IN  IF addr = <<>> /\ a >= dreg_qty THEN fail("RuntimeError")
        ELSE IF addr # <<>> /\ addr_out_of_range(a) THEN fail("ValueError")
        ELSE IF addr # <<>> /\ InList(a, uregs) THEN fail("ValueError")
        ELSE LET uregs1 == Append(uregs, a)
                 nm == IF name = <<>> THEN RegPageName(a) ELSE name[1]
             IN  IF nm \in DOMAIN udict
                 THEN [err |-> "NameError", user_regs |-> uregs1,
                       user_reg_dict |-> udict, addr |-> a]
                 ELSE [err |-> "ok", user_regs |-> uregs1,
                       user_reg_dict |-> (nm :> a) @@ udict, addr |-> a]

\* the instruction open_loop appends: counter register := n
open_loop_inst(pg, regaddr, n) ==
    add_instruction(pg, [CMD |-> "REG_WR", DST |-> <<"r", regaddr>>, SRC |-> "imm",
                         LIT |-> n, UF |-> "0"], 1)

\* a plausible slip: closing with no loop open is passed over in silence
pop_outcome_silent(stack) == "ok"

\* self.loop_stack.pop(): how it ends
pop_outcome(stack) == IF stack = <<>> THEN "IndexError" ELSE "ok"

\* the two instructions close_loop appends
close_loop_insts(pg, regaddr, name) ==
    add_instructions(pg,
        << [CMD |-> "REG_WR", DST |-> <<"r", regaddr>>, SRC |-> "op",
            OP |-> <<"r", regaddr, "-", 1>>, UF |-> "1"],
           [CMD |-> "JUMP", LABEL |-> Upper(name), IF_ |-> "NZ", UF |-> "0"] >>)

(***************************************************************************)
(* QickProgramV2: scheduling.                                              *)
(* A time argument is [auto |-> TRUE] for t='auto', else the number t.     *)
(***************************************************************************)
\* a plausible slip: the end time is rounded up to the next whole cycle
end_time_rounded_up(start, length, f_fabric) ==
    IntTrunc(start * f_fabric + length * f_time + f_fabric - 1, f_fabric)

\* int(start + pulse_length), pulse_length = length * f_time / f_fabric
end_time(start, length, f_fabric) ==
    IntTrunc(start * f_fabric + length * f_time, f_fabric)

\* a plausible slip: an early explicit time rewinds the channel
pulse_timestamp_rewind(ts, length, f_fabric, t) ==
    IF t.auto THEN end_time(ts, length, f_fabric) ELSE end_time(t.t, length, f_fabric)

\* pulse(): the channel timestamp after the call
pulse_timestamp(ts, length, f_fabric, t) ==
    IF t.auto THEN end_time(ts, length, f_fabric)
    ELSE IF t.t < ts THEN end_time(ts, length, f_fabric)
    ELSE end_time(t.t, length, f_fabric)

\* pulse(): the time written to the time register s14
pulse_time(ts, t) == IF t.auto THEN IntTrunc(ts, 1) ELSE t.t

RECURSIVE wport_insts(_, _)
wport_insts(ch, wavenames) ==
    IF wavenames = <<>> THEN <<>>
    ELSE <<[CMD |-> "WPORT_WR", DST |-> <<"#", ch>>, SRC |-> "wmem",
            ADDR |-> wave2idx[Head(wavenames)], UF |-> "0"]>>
         \o wport_insts(ch, Tail(wavenames))

\* the instructions pulse() appends
pulse_insts(pg, ch, name, tt) ==
    add_instructions(pg,
        <<[CMD |-> "REG_WR", DST |-> <<"s", 14>>, SRC |-> "imm", LIT |-> tt, UF |-> "0"]>>
        \o wport_insts(ch, pulses[name].wavenames))

\* a plausible slip: the bit replaces what the port already holds
or_bit_assigning(outdict, port, bit) ==
    IF \E i \in 1..Len(outdict) : outdict[i].port = port
    THEN [i \in 1..Len(outdict) |->
             IF outdict[i].port = port THEN [port |-> port, bits |-> {bit}]
             ELSE outdict[i]]
    ELSE Append(outdict, [port |-> port, bits |-> {bit}])

\* outdict[port] |= (1 << bit); outdict keeps insertion order
or_bit(outdict, port, bit) ==
    IF \E i \in 1..Len(outdict) : outdict[i].port = port
    THEN [i \in 1..Len(outdict) |->
             IF outdict[i].port = port
             THEN [port |-> port, bits |-> outdict[i].bits \cup {bit}]
             ELSE outdict[i]]
    ELSE Append(outdict, [port |-> port, bits |-> {bit}])

RECURSIVE bits_value(_)
bits_value(bits) ==
    IF bits = {} THEN 0
    ELSE LET b == Max(bits) IN 2^b + bits_value(bits \ {b})

RECURSIVE ascending(_)
ascending(S) ==
    IF S = {} THEN <<>>
    ELSE LET m == CHOOSE x \in S : \A y \in S : x <= y IN <<m>> \o ascending(S \ {m})

\* trigger(): the loop over ros
RECURSIVE trigger_ros(_, _, _, _, _)
trigger_ros(ros, treg, rts, outdict, trigset) ==
    IF ros = <<>>
    THEN [err |-> "ok", ro_ts |-> rts, outdict |-> outdict, trigset |-> trigset]
    ELSE LET ro == Head(ros)
             rocfg == readouts[ro]
             dport == rocfg.trigger_type = "dport"
             od == IF dport THEN or_bit(outdict, rocfg.trigger_port, rocfg.trigger_bit)
                   ELSE outdict
             tset == IF dport THEN trigset ELSE trigset \cup {rocfg.trigger_port}
             ts == get_timestamp(rts, ro)
         IN  IF treg < ts
             \* the warning's format arguments name the undefined 'tireg'
             THEN [err |-> "NameError", ro_ts |-> rts, outdict |-> od, trigset |-> tset]
             ELSE trigger_ros(Tail(ros), treg,
                              set_timestamp(rts,
                                  end_time(treg, ro_chs[ro].length, rocfg.f_fabric), ro),
                              od, tset)

\* trigger(): the loop over pins
RECURSIVE trigger_pins(_, _, _)
trigger_pins(pins, outdict, trigset) ==
    IF pins = <<>> THEN [outdict |-> outdict, trigset |-> trigset]
    ELSE LET pin == output_pins[Head(pins)]
         IN  IF pin.porttype = "dport"
             THEN trigger_pins(Tail(pins), or_bit(outdict, pin.portnum, pin.pinnum), trigset)
             ELSE trigger_pins(Tail(pins), outdict, trigset \cup {pin.portnum})

RECURSIVE dport_writes(_, _)
dport_writes(outdict, clear) ==
    IF outdict = <<>> THEN <<>>
    ELSE <<[CMD |-> "DPORT_WR", DST |-> <<"#", Head(outdict).port>>, SRC |-> "imm",
            DATA |-> IF clear THEN 0 ELSE bits_value(Head(outdict).bits), UF |-> "0"]>>
         \o dport_writes(Tail(outdict), clear)

RECURSIVE trig_pairs(_, _, _)
trig_pairs(ports, treg, width) ==
    IF ports = <<>> THEN <<>>
    ELSE <<[CMD |-> "TRIG", SRC |-> "set", DST |-> <<"#", Head(ports)>>, TIME |-> treg],
           [CMD |-> "TRIG", SRC |-> "clr", DST |-> <<"#", Head(ports)>>, TIME |-> treg + width]>>
         \o trig_pairs(Tail(ports), treg, width)

\* the instructions trigger() appends
trigger_insts(pg, outdict, trigset, treg, width) ==
    add_instructions(pg,
        (IF outdict # <<>>
         THEN <<[CMD |-> "REG_WR", DST |-> <<"s", 14>>, SRC |-> "imm", LIT |-> treg, UF |-> "0"]>>
              \o dport_writes(outdict, FALSE)
              \o <<[CMD |-> "REG_WR", DST |-> <<"s", 14>>, SRC |-> "imm",
                    LIT |-> treg + width, UF |-> "0"]>>
              \o dport_writes(outdict, TRUE)
         ELSE <<>>)
        \o trig_pairs(ascending(trigset), treg, width))

\* a plausible slip: the timestamps are reset whatever the advance
sync_all_resets_always(max_t, treg) == TRUE

\* sync_all(): whether the time advance is emitted and the timestamps reset
sync_all_resets(max_t, treg) == max_t + treg > 0

\* a plausible slip: the advance leaves out the extra time
sync_all_inst_max_only(pg, max_t, treg) ==
    add_instruction(pg, [CMD |-> "TIME", DST |-> <<"inc_ref", 0>>,
                         LIT |-> IntTrunc(max_t, 1)], 1)

\* the instruction sync_all appends
sync_all_inst(pg, max_t, treg) ==
    add_instruction(pg, [CMD |-> "TIME", DST |-> <<"inc_ref", 0>>,
                         LIT |-> IntTrunc(max_t + treg, 1)], 1)

(***************************************************************************)
(* Wave (asm_v2.py): the record written to the wave memory.  Bytes are     *)
(* numbers 0..255, a bytes object is the sequence of its bytes.            *)
(***************************************************************************)
Wave(freq, phase, env, gain, length, conf) ==
    [freq |-> freq, phase |-> phase, env |-> env, gain |-> gain, length |-> length,
     conf |-> conf]

\* Wave.widths
widths == <<4, 4, 3, 4, 4, 2>>

\* the fields of the namedtuple, in order
wave_fields(w) == <<w.freq, w.phase, w.env, w.gain, w.length, w.conf>>

\* int(i).to_bytes(length=w, byteorder='little', signed=True) raises
\* OverflowError unless -2^(8w-1) <= i < 2^(8w-1)
to_bytes_ok(i, w) == (i \div (256 ^ (w - 1))) \in -128..127

\* int(i).to_bytes(length=w, byteorder='little', signed=True): two's
\* complement, lowest byte first
to_bytes(i, w) == [k \in 1..w |-> (i \div (256 ^ (k - 1))) % 256]

RECURSIVE join(_)
join(ss) == IF ss = <<>> THEN <<>> ELSE Head(ss) \o join(Tail(ss))

\* Wave.compile: rawbytes
rawbytes(w) == join([k \in 1..6 |-> to_bytes(wave_fields(w)[k], widths[k])])

\* bytes(n)
zero_bytes(n) == [k \in 1..n |-> 0]

\* a plausible slip: the zero byte is put after the twelfth byte
with_zero_byte_at_12(raw) == SubSeq(raw, 1, 12) \o zero_bytes(1) \o SubSeq(raw, 13, Len(raw))

\* Wave.compile: rawbytes[:11]+bytes(1)+rawbytes[11:]
with_zero_byte(raw) == SubSeq(raw, 1, 11) \o zero_bytes(1) \o SubSeq(raw, 12, Len(raw))

\* Wave.compile: paddedbytes
paddedbytes(raw) == with_zero_byte(raw) \o zero_bytes(10)

\* np.frombuffer(b, dtype=np.int32): one signed little-endian word per 4 bytes
frombuffer_int32(b) ==
    [k \in 1..(Len(b) \div 4) |->
        b[4 * k - 3] + 256 * b[4 * k - 2] + 65536 * b[4 * k - 1]
        + 16777216 * (IF b[4 * k] >= 128 THEN b[4 * k] - 256 ELSE b[4 * k])]

\* Wave.compile(): how it ends and the array it returns
Wave_compile(w) ==
    IF \E k \in 1..6 : ~to_bytes_ok(wave_fields(w)[k], widths[k])
    THEN [err |-> "OverflowError", ret |-> <<>>]
    ELSE [err |-> "ok", ret |-> frombuffer_int32(paddedbytes(rawbytes(w)))]

(***************************************************************************)
(* Generator managers (asm_v2.py): parameter checks and the config word.   *)
(* A parameter dict is a function from the keys that are defined.          *)
(***************************************************************************)
\* FullSpeedGenManager.PARAMS_REQUIRED[style]
PARAMS_REQUIRED(style) ==
    CASE style = "const" -> {"style", "freq", "phase", "gain", "length"}
      [] style = "arb" -> {"style", "freq", "phase", "gain", "envelope"}
      [] style = "flat_top" -> {"style", "freq", "phase", "gain", "length", "envelope"}

\* FullSpeedGenManager.PARAMS_OPTIONAL[style]
PARAMS_OPTIONAL(style) ==
    CASE style = "const" -> {"phrst", "stdysel", "mode"}
      [] style = "arb" -> {"phrst", "stdysel", "mode", "outsel"}
      [] style = "flat_top" -> {"phrst", "stdysel"}

\* a plausible slip: parameters that are not allowed are let through
check_params_ignoring(params) ==
    IF PARAMS_REQUIRED(params.style) \ DOMAIN params # {}
    THEN [err |-> "RuntimeError", msg |-> "missing required pulse parameter(s)"]
    ELSE [err |-> "ok", msg |-> ""]

\* check_params(params): how it ends
check_params(params) ==
    LET required == PARAMS_REQUIRED(params.style)
        allowed == required \cup PARAMS_OPTIONAL(params.style)
        defined == DOMAIN params
    IN  IF required \ defined # {}
        THEN [err |-> "RuntimeError", msg |-> "missing required pulse parameter(s)"]
        ELSE IF defined \ allowed # {}
        THEN [err |-> "RuntimeError", msg |-> "unsupported pulse parameter(s)"]
        ELSE [err |-> "ok", msg |-> ""]

\* a plausible slip: the mode flag is shifted by one bit only
cfg2reg_mode_low(outsel, mode, stdysel, phrst) ==
    LET o == IF outsel = <<>> THEN "product" ELSE outsel[1]
        m == IF mode = <<>> THEN "oneshot" ELSE mode[1]
        s == IF stdysel = <<>> THEN "zero" ELSE stdysel[1]
        p == IF phrst = <<>> THEN 0 ELSE phrst[1]
    IN  IF o \notin {"product", "dds", "input", "zero"} \/ m \notin {"oneshot", "periodic"}
           \/ s \notin {"last", "zero"}
        THEN [err |-> "KeyError", ret |-> 0]
        ELSE [err |-> "ok",
              ret |-> p * 16 + (IF s = "last" THEN 0 ELSE 1) * 8
                      + (IF m = "oneshot" THEN 0 ELSE 1) * 2
                      + (CASE o = "product" -> 0 [] o = "dds" -> 1 [] o = "input" -> 2
                           [] o = "zero" -> 3)]

\* cfg2reg(outsel, mode, stdysel, phrst): how it ends and what it returns;
\* an argument left at None is <<>>
cfg2reg(outsel, mode, stdysel, phrst) ==
    LET o == IF outsel = <<>> THEN "product" ELSE outsel[1]
        m == IF mode = <<>> THEN "oneshot" ELSE mode[1]
        s == IF stdysel = <<>> THEN "zero" ELSE stdysel[1]
        p == IF phrst = <<>> THEN 0 ELSE phrst[1]
    IN  IF o \notin {"product", "dds", "input", "zero"} \/ m \notin {"oneshot", "periodic"}
           \/ s \notin {"last", "zero"}
        THEN [err |-> "KeyError", ret |-> 0]
        ELSE [err |-> "ok",
              ret |-> p * 16 + (IF s = "last" THEN 0 ELSE 1) * 8
                      + (IF m = "oneshot" THEN 0 ELSE 1) * 4
                      + (CASE o = "product" -> 0 [] o = "dds" -> 1 [] o = "input" -> 2
                           [] o = "zero" -> 3)]

(***************************************************************************)
(* QickProgramV2: envelopes, pulses and waves.  lib is the record of the   *)
(* fields these calls touch.  An array argument is <<>> for None and       *)
(* <<samples>> when given; a wave name "%s_wave%d" is the pair <<name, d>>. *)
(***************************************************************************)
Lib ==
    [waves |-> waves, wave2idx |-> wave2idx, pulses |-> pulses, envelopes |-> envelopes,
     mgr_addr |-> mgr_addr]

SetLib(lib) ==
    /\ waves' = lib.waves
    /\ wave2idx' = lib.wave2idx
    /\ pulses' = lib.pulses
    /\ envelopes' = lib.envelopes
    /\ mgr_addr' = lib.mgr_addr

\* the library of a new program
EmptyLib ==
    [waves |-> <<>>, wave2idx |-> <<>>, pulses |-> <<>>,
     envelopes |-> [ch \in GenChs |-> <<>>], mgr_addr |-> [ch \in GenChs |-> 0]]

Abs(x) == IF x < 0 THEN -x ELSE x

\* a plausible slip: the envelope is stored before its samples are checked
add_envelope_commit_first(lib, ch, name, idata, qdata) ==
    LET given == idata \o qdata
        length == IF given = <<>> THEN 0 ELSE Len(given[1])
        stored == [lib EXCEPT
                      !.envelopes[ch] =
                          (name :> [length |-> length, addr |-> lib.mgr_addr[ch]]) @@ @,
                      !.mgr_addr[ch] = @ + length]
    IN  IF given = <<>> THEN [err |-> "RuntimeError", lib |-> lib]
        ELSE IF Len(given) > 1 /\ Len(given[1]) # Len(given[2])
        THEN [err |-> "RuntimeError", lib |-> lib]
        ELSE IF length % gens[ch].samps_per_clk # 0
        THEN [err |-> "RuntimeError", lib |-> lib]
        ELSE IF \E d \in 1..Len(given) :
                   given[d] = <<>> \/ \E k \in 1..Len(given[d]) :
                                         Abs(given[d][k]) > gens[ch].maxv
        THEN [err |-> "ValueError", lib |-> stored]
        ELSE [err |-> "ok", lib |-> stored]

\* AbsGenManager.add_envelope(name, idata, qdata) of the manager of ch: how
\* it ends and the library it leaves.  np.max of an array without samples
\* raises ValueError.
add_envelope(lib, ch, name, idata, qdata) ==
    LET given == idata \o qdata
        length == IF given = <<>> THEN 0 ELSE Len(given[1])
    IN  IF given = <<>> THEN [err |-> "RuntimeError", lib |-> lib]
        ELSE IF Len(given) > 1 /\ Len(given[1]) # Len(given[2])
        THEN [err |-> "RuntimeError", lib |-> lib]
        ELSE IF length % gens[ch].samps_per_clk # 0
        THEN [err |-> "RuntimeError", lib |-> lib]
        ELSE IF \E d \in 1..Len(given) :
                   given[d] = <<>> \/ \E k \in 1..Len(given[d]) :
                                         Abs(given[d][k]) > gens[ch].maxv
        THEN [err |-> "ValueError", lib |-> lib]
        ELSE [err |-> "ok",
              lib |-> [lib EXCEPT
                          !.envelopes[ch] =
                              (name :> [length |-> length, addr |-> lib.mgr_addr[ch]]) @@ @,
                          !.mgr_addr[ch] = @ + length]]

\* self.waves[name] = wave, on an OrderedDict: a name that is there keeps
\* its place
ordered_set(items, name, wave) ==
    IF \E k \in 1..Len(items) : items[k].name = name
    THEN [k \in 1..Len(items) |->
             IF items[k].name = name THEN [name |-> name, wave |-> wave] ELSE items[k]]
    ELSE Append(items, [name |-> name, wave |-> wave])

\* a plausible slip: the index is always that of a new last row
add_wave_counting(lib, name, wave) ==
    [lib EXCEPT !.waves = ordered_set(@, name, wave),
                !.wave2idx = (name :> Len(lib.waves)) @@ @]

\* add_wave(name, wave)
add_wave(lib, name, wave) ==
    LET items == ordered_set(lib.waves, name, wave)
    IN  [lib EXCEPT !.waves = items, !.wave2idx = (name :> Len(items) - 1) @@ @]

\* AbsQickProgram.freq2reg and deg2reg: unit conversions to register values
freq2reg(f) == 2 * f
deg2reg(deg) == 3 * deg

\* dict.get(k), <<>> for None
Get(params, k) == IF k \in DOMAIN params THEN <<params[k]>> ELSE <<>>

\* params2wave(freqreg, phasereg, gainreg, lenreg, env, mode, outsel,
\* stdysel, phrst); lenreg is <<>> when the call does not pass it
params2wave(freqreg, phasereg, gainreg, lenreg, env, mode, outsel, stdysel, phrst) ==
    IF lenreg = <<>> THEN [err |-> "TypeError", wave |-> <<>>]
    ELSE IF lenreg[1] >= 65536 \/ lenreg[1] < 3 THEN [err |-> "RuntimeError", wave |-> <<>>]
    ELSE LET c == cfg2reg(outsel, mode, stdysel, phrst)
         IN  IF c.err # "ok" THEN [err |-> c.err, wave |-> <<>>]
             ELSE [err |-> "ok",
                   wave |-> Wave(freqreg, phasereg, env, gainreg, lenreg[1], c.ret)]

\* FullSpeedGenManager.params2pulse(params) of the manager of ch: how it ends
\* and the pulse dict it returns
params2pulse(lib, ch, params) ==
    LET freqreg == freq2reg(params.freq)
        phasereg == deg2reg(params.phase)
        gainreg == IntTrunc(params.gain * gens[ch].maxv * gens[ch].maxv_scale, 1)
        style == params.style
    IN  IF "envelope" \in DOMAIN params /\ params.envelope \notin DOMAIN lib.envelopes[ch]
        THEN [err |-> "KeyError", pulse |-> <<>>]
        ELSE IF style = "const"
        THEN LET w == params2wave(freqreg, phasereg, gainreg, <<>>, 0, Get(params, "mode"),
                                  <<"dds">>, Get(params, "stdysel"), Get(params, "phrst"))
             IN  IF w.err # "ok" THEN [err |-> w.err, pulse |-> <<>>]
                 ELSE [err |-> "ok",
                       pulse |-> [waves |-> <<w.wave>>, lenreg |-> us2cycles(params.length)]]
        ELSE IF style = "arb"
        THEN LET pinfo == lib.envelopes[ch][params.envelope]
                 env_length == pinfo.length \div gens[ch].samps_per_clk
                 env_addr == pinfo.addr \div gens[ch].samps_per_clk
                 w == params2wave(freqreg, phasereg, gainreg, <<env_length>>, env_addr,
                                  Get(params, "mode"), Get(params, "outsel"),
                                  Get(params, "stdysel"), Get(params, "phrst"))
             IN  IF w.err # "ok" THEN [err |-> w.err, pulse |-> <<>>]
                 ELSE [err |-> "ok", pulse |-> [waves |-> <<w.wave>>, length |-> env_length]]
        ELSE [err |-> "ok", pulse |-> [waves |-> <<>>]]

RECURSIVE add_waves(_, _, _, _)
add_waves(lib, name, ws, iWave) ==
    IF ws = <<>> THEN lib
    ELSE add_waves(add_wave(lib, <<name, iWave>>, Head(ws)), name, Tail(ws), iWave + 1)

\* a plausible slip: the pulse is registered before its waves are built
add_pulse_registering_first(lib, ch, name, params) ==
    LET c == check_params(params)
        held == [lib EXCEPT !.pulses = (name :> [waves |-> <<>>, wavenames |-> <<>>]) @@ @]
    IN  IF c.err # "ok" THEN [err |-> c.err, lib |-> lib]
        ELSE LET p == params2pulse(lib, ch, params)
             IN  IF p.err # "ok" THEN [err |-> p.err, lib |-> held]
                 ELSE LET wavenames == [k \in 1..Len(p.pulse.waves) |-> <<name, k - 1>>]
                          pulse == p.pulse @@ [wavenames |-> wavenames]
                          lib1 == [lib EXCEPT !.pulses = (name :> pulse) @@ @]
                      IN  [err |-> "ok", lib |-> add_waves(lib1, name, p.pulse.waves, 0)]

\* add_pulse(ch, name, **kwargs), which is AbsRegisterManager.add_pulse(name,
\* kwargs) of the manager of ch: how it ends and the library it leaves
add_pulse(lib, ch, name, params) ==
    LET c == check_params(params)
    IN  IF c.err # "ok" THEN [err |-> c.err, lib |-> lib]
        ELSE LET p == params2pulse(lib, ch, params)
             IN  IF p.err # "ok" THEN [err |-> p.err, lib |-> lib]
                 ELSE LET wavenames == [k \in 1..Len(p.pulse.waves) |-> <<name, k - 1>>]
                          pulse == p.pulse @@ [wavenames |-> wavenames]
                          lib1 == [lib EXCEPT !.pulses = (name :> pulse) @@ @]
                      IN  [err |-> "ok", lib |-> add_waves(lib1, name, p.pulse.waves, 0)]

\* an array of the given shape
Array(nrows, ncols, rows) == [shape |-> <<nrows, ncols>>, rows |-> rows]

\* a plausible slip: the rows are stacked whether there are any or not, and
\* np.stack of an empty list raises ValueError
compile_waves_always_stacking(lib) ==
    LET rows == [k \in 1..Len(lib.waves) |-> Wave_compile(lib.waves[k].wave)]
    IN  IF lib.waves = <<>> THEN [err |-> "ValueError", ret |-> Array(0, 0, <<>>)]
        ELSE IF \E k \in 1..Len(rows) : rows[k].err # "ok"
        THEN [err |-> "OverflowError", ret |-> Array(0, 0, <<>>)]
        ELSE [err |-> "ok",
              ret |-> Array(Len(rows), Len(rows[1].ret), [k \in 1..Len(rows) |-> rows[k].ret])]

\* compile_waves(): how it ends and the array it returns, np.zeros((0,8)) for
\* an empty table and np.stack of the compiled waves otherwise
compile_waves(lib) ==
    LET rows == [k \in 1..Len(lib.waves) |-> Wave_compile(lib.waves[k].wave)]
    IN  IF lib.waves = <<>> THEN [err |-> "ok", ret |-> Array(0, 8, <<>>)]
        ELSE IF \E k \in 1..Len(rows) : rows[k].err # "ok"
        THEN [err |-> "OverflowError", ret |-> Array(0, 0, <<>>)]
        ELSE [err |-> "ok",
              ret |-> Array(Len(rows), Len(rows[1].ret), [k \in 1..Len(rows) |-> rows[k].ret])]

\* the library after add_envelope and add_pulse have declared, on generator
\* 1, two 'arb' pulses whose envelopes are 3 and 4 fabric clocks long
DeclaredLib ==
    LET arb(env) == [k \in {"style", "freq", "phase", "gain", "envelope"} |->
                        CASE k = "style" -> "arb" [] k = "envelope" -> env
                          [] k = "freq" -> 100 [] k = "phase" -> 50 [] k = "gain" -> 1]
        l1 == add_envelope(EmptyLib, 1, "e3", <<<<1, 2, 1>>>>, <<>>).lib
        l2 == add_envelope(l1, 1, "e4", <<<<1, 2, 2, 1>>>>, <<>>).lib
        l3 == add_pulse(l2, 1, "p3", arb("e3")).lib
    IN  add_pulse(l3, 1, "p4", arb("e4")).lib

(***************************************************************************)
(* Arguments the calls are tried with.                                     *)
(***************************************************************************)
Auto == [auto |-> TRUE, t |-> 0]
Explicit(x) == [auto |-> FALSE, t |-> x]
PulseNames == {"p4"}
PulseTimes == {Auto, Explicit(1)}
WaitTimes == {5}
LabelNames == {"L"}
LoopCounts == {100}
TriggerRos == {<<0>>, <<1>>, <<0, 1>>}
TriggerPins == {<<>>, <<0>>}
TriggerTimes == {0, 2}
SyncTimes == {-1, 0}
RegAddrs == {<<>>, <<-1>>, <<0>>, <<2>>, <<3>>}
RegNames == {<<>>, <<"a">>}
LoopNames == {<<>>, <<"a">>, <<"A">>}
LoopAddrs == {<<>>, <<1>>}

Fresh == [ok |-> TRUE, lens |-> <<>>]

(***************************************************************************)
(* QickProgramV2: state after __init__, and the calls.                     *)
(***************************************************************************)
InitV2With(lib) ==
    /\ cls = "V2"
    /\ prog_list = <<>>
    /\ labels = ("s15" :> <<"s", 15>>)
    /\ p_addr = 1
    /\ line = 1
    /\ user_regs = <<>>
    /\ user_reg_dict = <<>>
    /\ loop_list = <<>>
    /\ loop_stack = <<>>
    /\ gen_ts = [ch \in GenChs |-> 0]
    /\ ro_ts = [ro \in RoChs |-> 0]
    /\ dac_ts = <<>>
    /\ last_pulse = <<>>
    /\ last = Call("init", <<>>, "ok")
    /\ auto_hist = [ch \in GenChs |-> Fresh]
    /\ open_hist = <<>>
    /\ waves = lib.waves
    /\ wave2idx = lib.wave2idx
    /\ pulses = lib.pulses
    /\ envelopes = lib.envelopes
    /\ mgr_addr = lib.mgr_addr
    /\ heap = <<>>
    /\ soc = <<>>

\* a program on which the two pulses have been declared
InitV2 == InitV2With(DeclaredLib)

\* a program right after __init__
InitNewV2 == InitV2With(EmptyLib)

wait(time) ==
    /\ cls = "V2"
    /\ SetPg(wait_inst(Pg, time))
    /\ Record("wait", [time |-> time], "ok")
    /\ UNCHANGED <<cls, labels, user_regs, user_reg_dict, loop_list, loop_stack,
                   gen_ts, ro_ts, auto_hist>>
    /\ UNCHANGED <<v1vars, open_hist, libvars, extvars>>

end ==
    /\ cls = "V2"
    /\ SetPg(end_inst(Pg))
    /\ Record("end", <<>>, "ok")
    /\ UNCHANGED <<cls, labels, user_regs, user_reg_dict, loop_list, loop_stack,
                   gen_ts, ro_ts, auto_hist>>
    /\ UNCHANGED <<v1vars, open_hist, libvars, extvars>>

AddLabel(label) ==
    /\ cls = "V2"
    /\ labels' = add_label(labels, label, prog_list)
    /\ Record("add_label", [label |-> label], "ok")
    /\ UNCHANGED <<cls, prog_list, p_addr, line, user_regs, user_reg_dict, loop_list,
                   loop_stack, gen_ts, ro_ts, auto_hist>>
    /\ UNCHANGED <<v1vars, open_hist, libvars, extvars>>

OpenLoop(n, name, addr) ==
    /\ cls = "V2"
    /\ LET nm == IF name = <<>> THEN LoopName(Len(loop_list)) ELSE name[1]
           r == new_reg(user_regs, user_reg_dict, addr, <<nm>>)
           pg1 == open_loop_inst(Pg, r.addr, n)
       IN  /\ user_regs' = r.user_regs
           /\ user_reg_dict' = r.user_reg_dict
           /\ IF r.err = "ok"
              THEN /\ loop_list' = Append(loop_list, nm)
                   /\ loop_stack' = Append(loop_stack, nm)
                   /\ SetPg(pg1)
                   /\ labels' = add_label(labels, Upper(nm), pg1.prog_list)
                   /\ open_hist' = Append(open_hist,
                          [name |-> nm, label |-> labels'[Upper(nm)], reg |-> r.addr])
              ELSE UNCHANGED <<loop_list, loop_stack, prog_list, p_addr, line, labels,
                               open_hist>>
           /\ Record("open_loop", [n |-> n, name |-> nm, addr |-> addr], r.err)
    /\ UNCHANGED <<cls, gen_ts, ro_ts, auto_hist>>
    /\ UNCHANGED <<v1vars, libvars, extvars>>

CloseLoop ==
    /\ cls = "V2"
    /\ IF loop_stack = <<>>
       THEN /\ Record("close_loop", <<>>, pop_outcome(loop_stack))
            /\ UNCHANGED <<loop_stack, prog_list, p_addr, line, open_hist>>
       ELSE LET name == loop_stack[Len(loop_stack)]
            IN  /\ loop_stack' = SubSeq(loop_stack, 1, Len(loop_stack) - 1)
                /\ open_hist' = SubSeq(open_hist, 1, Len(open_hist) - 1)
                /\ SetPg(close_loop_insts(Pg, user_reg_dict[name], name))
                /\ Record("close_loop", [name |-> name], "ok")
    /\ UNCHANGED <<cls, labels, user_regs, user_reg_dict, loop_list, gen_ts, ro_ts,
                   auto_hist>>
    /\ UNCHANGED <<v1vars, libvars, extvars>>

Pulse(ch, name, t) ==
    /\ cls = "V2"
    /\ IF name \notin DOMAIN pulses \/ "length" \notin DOMAIN pulses[name]
       THEN /\ Record("pulse", [ch |-> ch, name |-> name, t |-> t], "KeyError")
            /\ UNCHANGED <<gen_ts, prog_list, p_addr, line, auto_hist>>
       ELSE /\ LET ts == get_timestamp(gen_ts, ch)
                   new == pulse_timestamp(ts, pulses[name].length, gens[ch].f_fabric, t)
                   pg1 == pulse_insts(Pg, ch, name, pulse_time(ts, t))
               IN  /\ gen_ts' = set_timestamp(gen_ts, new, ch)
                   /\ SetPg(pg1)
                   /\ auto_hist' =
                        [auto_hist EXCEPT ![ch] =
                            IF t.auto
                            THEN [@ EXCEPT !.lens = Append(@, pulses[name].length)]
                            ELSE [@ EXCEPT !.ok = FALSE]]
            /\ Record("pulse", [ch |-> ch, name |-> name, t |-> t], "ok")
    /\ UNCHANGED <<cls, labels, user_regs, user_reg_dict, loop_list, loop_stack, ro_ts>>
    /\ UNCHANGED <<v1vars, open_hist, libvars, extvars>>

Trigger(ros, pins, t, width) ==
    /\ cls = "V2"
    /\ LET treg == us2cycles(t)
           r == trigger_ros(ros, treg, ro_ts, <<>>, {})
           q == trigger_pins(pins, r.outdict, r.trigset)
           pg1 == trigger_insts(Pg, q.outdict, q.trigset, treg, width)
       IN  /\ ro_ts' = r.ro_ts
           /\ IF r.err = "ok"
              THEN SetPg(pg1)
              ELSE UNCHANGED <<prog_list, p_addr, line>>
           /\ Record("trigger", [ros |-> ros, pins |-> pins, t |-> t], r.err)
    /\ UNCHANGED <<cls, labels, user_regs, user_reg_dict, loop_list, loop_stack, gen_ts,
                   auto_hist>>
    /\ UNCHANGED <<v1vars, open_hist, libvars, extvars>>

SyncAllV2(t) ==
    /\ cls = "V2"
    /\ LET treg == us2cycles(t)
           max_t == get_max_timestamp(gen_ts, ro_ts)
       IN  IF sync_all_resets(max_t, treg)
           THEN /\ SetPg(sync_all_inst(Pg, max_t, treg))
                /\ gen_ts' = reset_timestamps(gen_ts)
                /\ ro_ts' = reset_timestamps(ro_ts)
                /\ auto_hist' = [ch \in GenChs |-> Fresh]
           ELSE UNCHANGED <<prog_list, p_addr, line, gen_ts, ro_ts, auto_hist>>
    /\ Record("sync_all",
              [t |-> t,
               advanced |-> sync_all_resets(get_max_timestamp(gen_ts, ro_ts), us2cycles(t))],
              "ok")
    /\ UNCHANGED <<cls, labels, user_regs, user_reg_dict, loop_list, loop_stack>>
    /\ UNCHANGED <<v1vars, open_hist, libvars, extvars>>

\* new_reg(addr=addr, name=name), the other parameters left at None
NewReg(addr, name) ==
    /\ cls = "V2"
    /\ LET r == new_reg(user_regs, user_reg_dict, addr, name)
       IN  /\ user_regs' = r.user_regs
           /\ user_reg_dict' = r.user_reg_dict
           /\ Record("new_reg", [addr |-> addr, regname |-> name], r.err)
    /\ UNCHANGED <<cls, prog_list, labels, p_addr, line, loop_list, loop_stack, gen_ts,
                   ro_ts, auto_hist, open_hist>>
    /\ UNCHANGED <<v1vars, libvars, extvars>>

\* The part of the state space that is explored: programs of at most n
\* instructions, timestamps up to MaxTs, at most MaxLoops loops.
Within(n) ==
    /\ Len(prog_list') <= n
    /\ Len(loop_list') <= MaxLoops
    /\ \A ch \in DOMAIN gen_ts' : gen_ts'[ch] <= MaxTs
    /\ \A ro \in DOMAIN ro_ts' : ro_ts'[ro] <= MaxTs
    /\ \A ch \in DOMAIN dac_ts' : dac_ts'[ch] <= MaxTs

NextV2 ==
    \/ \E time \in WaitTimes : wait(time) /\ Within(MaxProg)
    \/ end /\ Within(MaxProg)
    \/ \E label \in LabelNames : AddLabel(label) /\ Within(MaxProg)
    \/ \E n \in LoopCounts : OpenLoop(n, <<>>, <<>>) /\ Within(MaxProg)
    \/ CloseLoop /\ Within(MaxProg)
    \/ \E ch \in GenChs, name \in PulseNames, t \in PulseTimes :
          Pulse(ch, name, t) /\ Within(MaxProg)
    \/ \E ros \in TriggerRos, pins \in TriggerPins, t \in TriggerTimes :
          Trigger(ros, pins, t, DefaultWidth) /\ Within(MaxProg)
    \/ \E t \in SyncTimes : SyncAllV2(t) /\ Within(MaxProg)

SpecV2 == InitV2 /\ [][NextV2]_vars

\* QickProgramV2, registers and loops
NextRegV2 ==
    \/ \E addr \in RegAddrs, name \in RegNames : NewReg(addr, name) /\ Within(MaxLoopProg)
    \/ \E n \in LoopCounts, name \in LoopNames, addr \in LoopAddrs :
          OpenLoop(n, name, addr) /\ Within(MaxLoopProg)
    \/ CloseLoop /\ Within(MaxLoopProg)

SpecRegV2 == InitV2 /\ [][NextRegV2]_vars

\* QickProgramV2, scheduling calls only, on longer programs
NextSchedV2 ==
    \/ \E ch \in GenChs, name \in PulseNames, t \in PulseTimes :
          Pulse(ch, name, t) /\ Within(MaxSched)
    \/ \E ros \in TriggerRos, pins \in TriggerPins, t \in TriggerTimes :
          Trigger(ros, pins, t, DefaultWidth) /\ Within(MaxSched)
    \/ \E t \in SyncTimes : SyncAllV2(t) /\ Within(MaxSched)

SpecSchedV2 == InitV2 /\ [][NextSchedV2]_vars

(***************************************************************************)
(* QickProgram (qick_asm.py).                                              *)
(* An instruction {'name': n, 'args': (...)} is kept as                    *)
(*   name: the mnemonic,                                                   *)
(*   args: its page, register and channel operands, in order,              *)
(*   imm:  its immediate operand, <<>> if it has none,                     *)
(*   sym:  its operator and label operands, in order;                      *)
(* the trailing comment string is left out.  An immediate v is the pair    *)
(* <<hi, lo>> with v = hi * 2^16 + lo and 0 <= lo < 2^16, so that values   *)
(* around 2^31 can be written; hi is negative for a negative v.            *)
(***************************************************************************)
ToWide(v) == <<v \div 65536, v % 65536>>

\* val > 2**31
wide_gt_2_31(w) == w[1] > 32768 \/ (w[1] = 32768 /\ w[2] > 0)

\* a plausible slip: the threshold is 2**31
wide_lt_2_31(w) == w[1] < 32768

\* imm < 2**30
wide_lt_2_30(w) == w[1] < 16384

\* imm >> 1
wide_shr1(w) == <<w[1] \div 2, (w[2] + (w[1] % 2) * 65536) \div 2>>

\* convert_immediate(val): how it ends and what it returns
convert_immediate(val) ==
    IF wide_gt_2_31(val) THEN [err |-> "RuntimeError", ret |-> val]
    ELSE IF val[1] < 0 THEN [err |-> "ok", ret |-> <<val[1] + 32768, val[2]>>]
    ELSE [err |-> "ok", ret |-> val]

\* QickProgram.instructions[name]['type'], for the mnemonics used here
inst_type(name) ==
    CASE name \in {"pushi", "popi", "mathi", "seti", "synci", "waiti", "bitwi", "memri",
                   "memwi", "regwi", "setbi"} -> "I"
      [] name \in {"loopnz", "end"} -> "J1"
      [] name = "condj" -> "J2"
      [] OTHER -> "R"

\* QickProgram.op_codes.keys()
op_codes == {">", ">=", "<", "<=", "==", "!=", "+", "-", "*", "&", "|", "^", "~",
             "<<", ">>", "upper", "lower"}

\* QickProgram.special_registers[ch-1][name]
sreg(ch, name) ==
    LET base == IF ch \in {1, 3, 5, 7} THEN 16 ELSE 23
    IN  CASE name = "freq" -> base
          [] name = "phase" -> base + 1
          [] name = "addr" -> base + 2
          [] name = "gain" -> base + 3
          [] name = "mode" -> base + 4
          [] name = "t" -> base + 5

\* ch_page(ch)
ch_page(ch) == (ch - 1) \div 2

\* self.channels[ch]['pulses'][name], as left by add_pulse of a 'const'
\* pulse of length 2 and of an 'arb' pulse of 16 samples, on every channel
v1pulses ==
    [name \in {"c2", "a1"} |->
        IF name = "c2" THEN [style |-> "const", addr |-> 0, length |-> 2]
                       ELSE [style |-> "arb", addr |-> 0, length |-> 16 \div 16]]

I(name, args, imm, sym) == [name |-> name, args |-> args, imm |-> imm, sym |-> sym]

\* append_instruction(name, *args)
append_instruction(plist, inst) == Append(plist, inst)

RECURSIVE append_instructions(_, _)
append_instructions(plist, insts) ==
    IF insts = <<>> THEN plist
    ELSE append_instructions(append_instruction(plist, Head(insts)), Tail(insts))

\* get_mode_code(phrst, stdysel, mode, outsel, length) with phrst, stdysel
\* and mode left at None; outsel is <<>> for None
get_mode_code(outsel, length) ==
    LET mc == 0 * 16 + 1 * 8 + 0 * 4 + (IF outsel = <<>> THEN 0 ELSE outsel[1])
    IN  <<mc, length>>

\* safe_regwi(rp, reg, imm): the instructions it appends
safe_regwi(rp, reg, imm) ==
    IF wide_lt_2_30(imm)
    THEN <<I("regwi", <<rp, reg>>, imm, <<>>)>>
    ELSE <<I("regwi", <<rp, reg>>, wide_shr1(imm), <<>>),
           I("bitwi", <<rp, reg, reg>>, ToWide(2), <<"<<">>)>>
         \o (IF imm[2] % 4 # 0
             THEN <<I("mathi", <<rp, reg, reg>>, ToWide(imm[2] % 4), <<"+">>)>>
             ELSE <<>>)

\* set_pulse_registers(ch, addr=addr, outsel=outsel, length=length, t=t) with
\* freq, phase, gain, phrst, stdysel and mode left at None: the instructions
\* it appends.  addr, outsel and length are <<>> for None; t is <<>> for None.
set_pulse_registers(ch, addr, outsel, length, t) ==
    LET rp == ch_page(ch)
    IN  (IF t # <<>> /\ ~t[1].auto
         THEN <<I("regwi", <<rp, sreg(ch, "t")>>, ToWide(t[1].t), <<>>)>> ELSE <<>>)
        \o (IF addr # <<>>
            THEN <<I("regwi", <<rp, sreg(ch, "addr")>>, ToWide(addr[1]), <<>>)>> ELSE <<>>)
        \o (IF length # <<>> \/ outsel # <<>>
            THEN <<I("regwi", <<rp, sreg(ch, "mode")>>,
                     get_mode_code(outsel, length[1]), <<>>)>>
            ELSE <<>>)

\* p.set(ch, rp, r_freq, r_phase, r_addr, r_gain, r_mode, r_t, comment)
set_inst(ch) ==
    I("set", <<ch, ch_page(ch), sreg(ch, "freq"), sreg(ch, "phase"), sreg(ch, "addr"),
               sreg(ch, "gain"), sreg(ch, "mode"), sreg(ch, "t")>>, <<>>, <<>>)

\* const_pulse(ch, name, t=t): the play time
const_pulse_time(ts, t) == IF t.auto THEN ts ELSE t.t

\* const_pulse(ch, name, t=t): dac_ts[ch] after the call
const_pulse_timestamp(ts, length, t) == IF t.auto THEN ts + length ELSE ts

\* arb_pulse(ch, name, t=t): dac_ts[ch] after the call
arb_pulse_timestamp(ts, length, t) == (IF t.auto THEN ts ELSE t.t) + length

\* align(chs): self.dac_ts after the call
align(ts, chs) ==
    LET max_t == Max({ts[ch] : ch \in 1..8})
    IN  [ch \in DOMAIN ts |-> IF ch \in 1..8 THEN max_t ELSE ts[ch]]

\* QickProgram.sync_all: max([self.dac_ts[ch] for ch in range(1,9)])
dac_max(ts) == Max({ts[ch] : ch \in 1..8})

\* QickProgram.instructions.keys()
mnemonics ==
    {"pushi", "popi", "mathi", "seti", "synci", "waiti", "bitwi", "memri", "memwi",
     "regwi", "setbi", "loopnz", "end", "condj", "math", "set", "sync", "read", "wait",
     "bitw", "memr", "memw", "setb"}

\* QickProgram.instructions[name]['bin']
bin(name) ==
    CASE name = "pushi" -> 16 [] name = "popi" -> 17 [] name = "mathi" -> 18
      [] name = "seti" -> 19 [] name = "synci" -> 20 [] name = "waiti" -> 21
      [] name = "bitwi" -> 22 [] name = "memri" -> 23 [] name = "memwi" -> 24
      [] name = "regwi" -> 25 [] name = "setbi" -> 26
      [] name = "loopnz" -> 48 [] name = "end" -> 63 [] name = "condj" -> 49
      [] name = "math" -> 80 [] name = "set" -> 81 [] name = "sync" -> 82
      [] name = "read" -> 83 [] name = "wait" -> 84 [] name = "bitw" -> 85
      [] name = "memr" -> 86 [] name = "memw" -> 87 [] name = "setb" -> 88

\* QickProgram.instructions[name]['fmt']: (index into args, bit offset) pairs
fmt(name) ==
    CASE name = "pushi" -> <<<<0, 53>>, <<1, 41>>, <<2, 36>>, <<3, 0>>>>
      [] name = "popi" -> <<<<0, 53>>, <<1, 41>>>>
      [] name = "mathi" -> <<<<0, 53>>, <<1, 41>>, <<2, 36>>, <<3, 46>>, <<4, 0>>>>
      [] name = "seti" -> <<<<1, 53>>, <<0, 50>>, <<2, 36>>, <<3, 0>>>>
      [] name = "synci" -> <<<<0, 0>>>>
      [] name = "waiti" -> <<<<0, 50>>, <<1, 0>>>>
      [] name = "bitwi" -> <<<<0, 53>>, <<3, 46>>, <<1, 41>>, <<2, 36>>, <<4, 0>>>>
      [] name = "memri" -> <<<<0, 53>>, <<1, 41>>, <<2, 0>>>>
      [] name = "memwi" -> <<<<0, 53>>, <<1, 31>>, <<2, 0>>>>
      [] name = "regwi" -> <<<<0, 53>>, <<1, 41>>, <<2, 0>>>>
      [] name = "setbi" -> <<<<0, 53>>, <<1, 41>>, <<2, 0>>>>
      [] name = "loopnz" -> <<<<0, 53>>, <<1, 41>>, <<1, 36>>, <<2, 0>>>>
      [] name = "end" -> <<>>
      [] name = "condj" -> <<<<0, 53>>, <<2, 46>>, <<1, 36>>, <<3, 31>>, <<4, 0>>>>
      [] name = "math" -> <<<<0, 53>>, <<3, 46>>, <<1, 41>>, <<2, 36>>, <<4, 31>>>>
      [] name = "set" -> <<<<1, 53>>, <<0, 50>>, <<2, 36>>, <<7, 31>>, <<3, 26>>, <<4, 21>>,
                           <<5, 16>>, <<6, 11>>>>
      [] name = "sync" -> <<<<0, 53>>, <<1, 31>>>>
      [] name = "read" -> <<<<1, 53>>, <<0, 50>>, <<2, 46>>, <<3, 41>>>>
      [] name = "wait" -> <<<<0, 53>>, <<1, 31>>>>
      [] name = "bitw" -> <<<<0, 53>>, <<1, 41>>, <<2, 36>>, <<3, 46>>, <<4, 31>>>>
      [] name = "memr" -> <<<<0, 53>>, <<1, 41>>, <<2, 36>>>>
      [] name = "memw" -> <<<<0, 53>>, <<2, 36>>, <<1, 31>>>>
      [] name = "setb" -> <<<<0, 53>>, <<2, 36>>, <<1, 31>>>>

\* QickProgram.op_codes[op]
op_code(op) ==
    CASE op \in {">", "&"} -> 0
      [] op \in {">=", "|"} -> 1
      [] op \in {"<", "^"} -> 2
      [] op \in {"<=", "~"} -> 3
      [] op \in {"==", "<<"} -> 4
      [] op \in {"!=", ">>", "lower"} -> 5
      [] op = "+" -> 8
      [] op = "-" -> 9
      [] op \in {"*", "upper"} -> 10

\* inst['args'] as the tuple the call was made with, every number as a pair
\* <<hi, lo>>: the operands of args, the immediate of imm and the operator
\* and label of sym at the places the mnemonic takes them.  Operators and
\* labels are left as strings.
call_args(inst) ==
    LET a == [i \in 1..Len(inst.args) |-> ToWide(inst.args[i])]
    IN  CASE inst.name \in {"regwi", "memri", "memwi", "setbi"} -> <<a[1], a[2], inst.imm>>
          [] inst.name \in {"pushi", "seti"} -> <<a[1], a[2], a[3], inst.imm>>
          [] inst.name \in {"mathi", "bitwi"} -> <<a[1], a[2], a[3], inst.sym[1], inst.imm>>
          [] inst.name = "synci" -> <<inst.imm>>
          [] inst.name \in {"waiti", "popi"} -> <<a[1], inst.imm>>
          [] inst.name = "loopnz" -> <<a[1], a[2], inst.sym[1]>>
          [] inst.name = "condj" -> <<a[1], a[2], inst.sym[1], a[3], inst.sym[2]>>
          [] inst.name \in {"math", "bitw"} -> <<a[1], a[2], a[3], inst.sym[1], a[4]>>
          [] inst.name = "read" -> <<a[1], a[2], inst.sym[1], a[3]>>
          [] OTHER -> a

\* the bits that are 1 in the number <<hi, lo>> >= 0
bits(w) ==
    {b \in 0..15 : (w[2] \div (2 ^ b)) % 2 = 1}
    \cup {16 + b : b \in {c \in 0..16 : (w[1] \div (2 ^ c)) % 2 = 1}}

\* a plausible slip: the opcode is put where the page is
shl_opcode_at_page(S, n) == {b + (IF n = 56 THEN 53 ELSE n) : b \in S}

\* x << n, on the set of the bits that are 1
shl(S, n) == {b + n : b \in S}

\* compile_instruction(inst): args after the immediate, the label and the
\* operator have been replaced by the numbers that are encoded
resolved_args(inst, lbls) ==
    LET args == call_args(inst)
        n == Len(fmt(inst.name))
    IN  [i \in 1..Len(args) |->
            IF inst_type(inst.name) = "I" /\ i = n THEN convert_immediate(args[i]).ret
            ELSE IF inst.name = "loopnz" /\ i = Len(args) THEN ToWide(lbls[args[i]])
            ELSE IF inst.name = "condj" /\ i = 5 THEN ToWide(lbls[args[i]])
            ELSE IF inst.name = "condj" /\ i = 3 THEN ToWide(op_code(args[i]))
            ELSE IF inst.name \in {"math", "mathi", "bitw", "bitwi"} /\ i = 4
                 THEN ToWide(op_code(args[i]))
            ELSE IF inst.name = "read" /\ i = 3 THEN ToWide(op_code(args[i]))
            ELSE args[i]]

\* compile_instruction(inst): mcode, as the set of the bits that are 1
mcode(inst, lbls) ==
    LET args == resolved_args(inst, lbls)
        f == fmt(inst.name)
    IN  shl(bits(ToWide(bin(inst.name))), 56)
        \cup UNION {shl(bits(args[f[k][1] + 1]), f[k][2]) : k \in 1..Len(f)}
        \cup (IF inst.name = "loopnz" THEN shl(bits(ToWide(8)), 46) ELSE {})

\* compile_instruction(inst): how it ends
compile_instruction(inst, lbls) ==
    IF inst.name \notin mnemonics THEN "KeyError"
    ELSE IF inst_type(inst.name) = "I"
       /\ convert_immediate(call_args(inst)[Len(fmt(inst.name))]).err # "ok"
    THEN "RuntimeError"
    ELSE IF inst.name = "loopnz" /\ inst.sym[Len(inst.sym)] \notin DOMAIN lbls
    THEN "KeyError"
    ELSE IF inst.name = "condj" /\ inst.sym[2] \notin DOMAIN lbls THEN "KeyError"
    ELSE IF inst.name = "condj" /\ inst.sym[1] \notin op_codes THEN "KeyError"
    ELSE IF inst.name \in {"math", "mathi", "bitw", "bitwi", "read"}
            /\ inst.sym[1] \notin op_codes
    THEN "KeyError"
    ELSE "ok"

\* a plausible slip: a label must be placed before the instruction that uses it
RECURSIVE compile_no_forward(_, _)
compile_no_forward(plist, lbls) ==
    IF plist = <<>> THEN "ok"
    ELSE LET n == Len(plist)
             first == compile_no_forward(SubSeq(plist, 1, n - 1), lbls)
             e == compile_instruction(plist[n],
                      [l \in {x \in DOMAIN lbls : lbls[x] < n} |-> lbls[l]])
         IN  IF first # "ok" THEN first ELSE e

\* compile(): "ok", or the exception of the first instruction that fails
RECURSIVE compile(_, _)
compile(plist, lbls) ==
    IF plist = <<>> THEN "ok"
    ELSE LET e == compile_instruction(Head(plist), lbls)
         IN  IF e # "ok" THEN e ELSE compile(Tail(plist), lbls)

\* a plausible slip: the words come out last instruction first
compile_words_reversed(plist, lbls) ==
    [i \in 1..Len(plist) |-> mcode(plist[Len(plist) + 1 - i], lbls)]

\* compile(): the list it returns
compile_words(plist, lbls) == [i \in 1..Len(plist) |-> mcode(plist[i], lbls)]

\* label(name): self.labels after the call
label(lbls, name, plist) == (name :> Len(plist)) @@ lbls

(***************************************************************************)
(* QickProgram: state after __init__, and the calls.                       *)
(***************************************************************************)
V1Chs == {1, 2}
V1Times == {Auto, Explicit(0)}
AlignChs == {<<1>>, <<1, 2>>}
\* 0, 5, 2^30 - 1, 2^30, 2^31 - 1, 2^31, 2^31 + 1, 2^32 - 1, -1, -2^31, -2^31 - 1
ImmValues ==
    { <<0, 0>>, <<0, 5>>, <<16383, 65535>>, <<16384, 0>>, <<32767, 65535>>, <<32768, 0>>,
      <<32768, 1>>, <<65535, 65535>>, <<-1, 65535>>, <<-32768, 0>>, <<-32769, 65535>> }
\* 5, 2^30 - 1, 2^30, 2^30 + 3, 2^31 - 4, 2^31 + 2, 2^32 - 1
SafeImms ==
    { <<0, 5>>, <<16383, 65535>>, <<16384, 0>>, <<16384, 3>>, <<32767, 65532>>,
      <<32768, 2>>, <<65535, 65535>> }
UserInsts ==
    { I("regwi", <<0, 1>>, ToWide(5), <<>>),
      I("regwi", <<0, 1>>, <<32768, 1>>, <<>>),
      I("loopnz", <<0, 1>>, <<>>, <<"L">>),
      I("condj", <<0, 1, 2>>, <<>>, <<"<", "L">>) }

\* one call of every mnemonic of the instruction table with the largest
\* operands its fields hold, and one with operands that differ from field
\* to field; 2^31 - 1 is <<32767, 65535>> and 0x2AAA5555 is <<10922, 21845>>
FitInsts ==
    { I("pushi", <<7, 31, 31>>, <<32767, 65535>>, <<>>),
      I("pushi", <<5, 21, 10>>, <<10922, 21845>>, <<>>),
      I("popi", <<7>>, <<0, 31>>, <<>>),
      I("popi", <<5>>, <<0, 21>>, <<>>),
      I("mathi", <<7, 31, 31>>, <<32767, 65535>>, <<"*">>),
      I("mathi", <<5, 21, 10>>, <<10922, 21845>>, <<"-">>),
      I("seti", <<7, 7, 31>>, <<32767, 65535>>, <<>>),
      I("seti", <<5, 2, 21>>, <<10922, 21845>>, <<>>),
      I("synci", <<>>, <<32767, 65535>>, <<>>),
      I("waiti", <<7>>, <<32767, 65535>>, <<>>),
      I("waiti", <<5>>, <<10922, 21845>>, <<>>),
      I("bitwi", <<7, 31, 31>>, <<32767, 65535>>, <<">>">>),
      I("bitwi", <<5, 21, 10>>, <<10922, 21845>>, <<"^">>),
      I("memri", <<7, 31>>, <<32767, 65535>>, <<>>),
      I("memri", <<5, 21>>, <<10922, 21845>>, <<>>),
      I("memwi", <<7, 31>>, <<32767, 65535>>, <<>>),
      I("memwi", <<5, 21>>, <<10922, 21845>>, <<>>),
      I("regwi", <<7, 31>>, <<32767, 65535>>, <<>>),
      I("regwi", <<5, 21>>, <<10922, 21845>>, <<>>),
      I("setbi", <<7, 31>>, <<32767, 65535>>, <<>>),
      I("setbi", <<5, 21>>, <<10922, 21845>>, <<>>),
      I("loopnz", <<7, 31>>, <<>>, <<"L">>),
      I("loopnz", <<5, 21>>, <<>>, <<"L">>),
      I("end", <<>>, <<>>, <<>>),
      I("condj", <<7, 31, 31>>, <<>>, <<"!=", "L">>),
      I("condj", <<5, 21, 10>>, <<>>, <<"<", "L">>),
      I("math", <<7, 31, 31, 31>>, <<>>, <<"*">>),
      I("math", <<5, 21, 10, 19>>, <<>>, <<"+">>),
      I("set", <<7, 7, 31, 31, 31, 31, 31, 31>>, <<>>, <<>>),
      I("set", <<2, 5, 21, 10, 19, 12, 25, 6>>, <<>>, <<>>),
      I("sync", <<7, 31>>, <<>>, <<>>),
      I("sync", <<5, 21>>, <<>>, <<>>),
      I("read", <<7, 7, 31>>, <<>>, <<"upper">>),
      I("read", <<2, 5, 21>>, <<>>, <<"lower">>),
      I("wait", <<7, 31>>, <<>>, <<>>),
      I("wait", <<5, 21>>, <<>>, <<>>),
      I("bitw", <<7, 31, 31, 31>>, <<>>, <<">>">>),
      I("bitw", <<5, 21, 10, 19>>, <<>>, <<"|">>),
      I("memr", <<7, 31, 31>>, <<>>, <<>>),
      I("memr", <<5, 21, 10>>, <<>>, <<>>),
      I("memw", <<7, 31, 31>>, <<>>, <<>>),
      I("memw", <<5, 21, 10>>, <<>>, <<>>),
      I("setb", <<7, 31, 31>>, <<>>, <<>>),
      I("setb", <<5, 21, 10>>, <<>>, <<>>) }

\* calls with an operand that its field does not hold: page 8, register 32,
\* channel 8, the immediate 2^31; and one with the immediate -1
WideInsts ==
    { I("regwi", <<8, 1>>, <<0, 5>>, <<>>),
      I("math", <<0, 32, 1, 2>>, <<>>, <<"+">>),
      I("memw", <<0, 1, 32>>, <<>>, <<>>),
      I("seti", <<8, 0, 1>>, <<0, 5>>, <<>>),
      I("memwi", <<0, 1>>, <<32768, 0>>, <<>>),
      I("regwi", <<0, 1>>, <<-1, 65535>>, <<>>) }

EncInsts == FitInsts \cup WideInsts

InitV1 ==
    /\ cls = "V1"
    /\ prog_list = <<>>
    /\ labels = <<>>
    /\ p_addr = 0
    /\ line = 0
    /\ user_regs = <<>>
    /\ user_reg_dict = <<>>
    /\ loop_list = <<>>
    /\ loop_stack = <<>>
    /\ gen_ts = <<>>
    /\ ro_ts = <<>>
    /\ dac_ts = [ch \in 0..8 |-> 0]
    /\ last_pulse = [ch \in 1..7 |-> <<>>]
    /\ last = Call("init", <<>>, "ok")
    /\ auto_hist = [ch \in 1..7 |-> Fresh]
    /\ open_hist = <<>>
    /\ waves = <<>>
    /\ wave2idx = <<>>
    /\ pulses = <<>>
    /\ envelopes = <<>>
    /\ mgr_addr = <<>>
    /\ heap = <<>>
    /\ soc = <<>>

AppendInst(inst) ==
    /\ cls = "V1"
    /\ prog_list' = append_instruction(prog_list, inst)
    /\ Record("append_instruction", [inst |-> inst], "ok")
    /\ UNCHANGED <<cls, labels, dac_ts, last_pulse, auto_hist>>
    /\ UNCHANGED <<v2vars, libvars, extvars>>

Label(name) ==
    /\ cls = "V1"
    /\ labels' = label(labels, name, prog_list)
    /\ Record("label", [name |-> name], "ok")
    /\ UNCHANGED <<cls, prog_list, dac_ts, last_pulse, auto_hist>>
    /\ UNCHANGED <<v2vars, libvars, extvars>>

Compile ==
    /\ cls = "V1"
    /\ LET e == compile(prog_list, labels)
       IN  last' = [op |-> "compile", args |-> <<>>, err |-> e,
                    ret |-> IF e = "ok" THEN compile_words(prog_list, labels) ELSE <<>>]
    /\ UNCHANGED <<cls, prog_list, labels, dac_ts, last_pulse, auto_hist>>
    /\ UNCHANGED <<v2vars, libvars, extvars>>

ConstPulse(ch, name, t) ==
    /\ cls = "V1"
    /\ LET pinfo == v1pulses[name]
           ts == dac_ts[ch]
       IN  /\ last_pulse' = [last_pulse EXCEPT ![ch] = <<name>>]
           /\ dac_ts' = [dac_ts EXCEPT ![ch] = const_pulse_timestamp(ts, pinfo.length, t)]
           /\ prog_list' = append_instructions(prog_list,
                  set_pulse_registers(ch, <<>>, <<1>>, <<pinfo.length>>, <<t>>)
                  \o <<I("regwi", <<ch_page(ch), sreg(ch, "t")>>,
                         ToWide(const_pulse_time(ts, t)), <<>>),
                       set_inst(ch)>>)
           /\ auto_hist' = [auto_hist EXCEPT ![ch] =
                  IF t.auto THEN [@ EXCEPT !.lens = Append(@, pinfo.length)] ELSE @]
    /\ Record("const_pulse", [ch |-> ch, name |-> name, t |-> t], "ok")
    /\ UNCHANGED <<cls, labels>>
    /\ UNCHANGED <<v2vars, libvars, extvars>>

ArbPulse(ch, name, t) ==
    /\ cls = "V1"
    /\ LET pinfo == v1pulses[name]
           ts == dac_ts[ch]
       IN  /\ last_pulse' = [last_pulse EXCEPT ![ch] = <<name>>]
           /\ dac_ts' = [dac_ts EXCEPT ![ch] = arb_pulse_timestamp(ts, pinfo.length, t)]
           /\ prog_list' = append_instructions(prog_list,
                  set_pulse_registers(ch, <<pinfo.addr \div 16>>, <<>>, <<pinfo.length>>, <<>>)
                  \o safe_regwi(ch_page(ch), sreg(ch, "t"), ToWide(const_pulse_time(ts, t)))
                  \o <<set_inst(ch)>>)
           /\ auto_hist' = [auto_hist EXCEPT ![ch] =
                  IF t.auto THEN [@ EXCEPT !.lens = Append(@, pinfo.length)]
                  ELSE [@ EXCEPT !.ok = FALSE]]
    /\ Record("arb_pulse", [ch |-> ch, name |-> name, t |-> t], "ok")
    /\ UNCHANGED <<cls, labels>>
    /\ UNCHANGED <<v2vars, libvars, extvars>>

Align(chs) ==
    /\ cls = "V1"
    /\ dac_ts' = align(dac_ts, chs)
    /\ auto_hist' = [ch \in DOMAIN auto_hist |-> [auto_hist[ch] EXCEPT !.ok = FALSE]]
    /\ Record("align", [chs |-> chs], "ok")
    /\ UNCHANGED <<cls, prog_list, labels, last_pulse>>
    /\ UNCHANGED <<v2vars, libvars, extvars>>

SyncAllV1(t) ==
    /\ cls = "V1"
    /\ LET max_t == dac_max(dac_ts)
       IN  IF sync_all_resets(max_t, t)
           THEN /\ prog_list' = append_instruction(prog_list,
                                    I("synci", <<>>, ToWide(max_t + t), <<>>))
                /\ dac_ts' = [ch \in DOMAIN dac_ts |-> 0]
                /\ auto_hist' = [ch \in DOMAIN auto_hist |-> Fresh]
           ELSE UNCHANGED <<prog_list, dac_ts, auto_hist>>
    /\ Record("sync_all", [t |-> t, advanced |-> sync_all_resets(dac_max(dac_ts), t)], "ok")
    /\ UNCHANGED <<cls, labels, last_pulse>>
    /\ UNCHANGED <<v2vars, libvars, extvars>>

\* convert_immediate(val), called on its own
ConvertImmediate(val) ==
    /\ cls = "V1"
    /\ LET r == convert_immediate(val)
       IN  last' = [op |-> "convert_immediate", args |-> [val |-> val], err |-> r.err,
                    ret |-> r.ret]
    /\ UNCHANGED <<cls, prog_list, labels, dac_ts, last_pulse, auto_hist>>
    /\ UNCHANGED <<v2vars, libvars, extvars>>

\* safe_regwi(rp, reg, imm)
SafeRegwi(rp, reg, imm) ==
    /\ cls = "V1"
    /\ prog_list' = append_instructions(prog_list, safe_regwi(rp, reg, imm))
    /\ Record("safe_regwi", [rp |-> rp, reg |-> reg, imm |-> imm], "ok")
    /\ UNCHANGED <<cls, labels, dac_ts, last_pulse, auto_hist>>
    /\ UNCHANGED <<v2vars, libvars, extvars>>

NextV1 ==
    \/ \E inst \in UserInsts : AppendInst(inst) /\ Within(MaxV1)
    \/ \E name \in LabelNames : Label(name) /\ Within(MaxV1)
    \/ Compile /\ Within(MaxV1)
    \/ \E ch \in V1Chs, t \in V1Times : ConstPulse(ch, "c2", t) /\ Within(MaxV1)
    \/ \E ch \in V1Chs, t \in V1Times : ArbPulse(ch, "a1", t) /\ Within(MaxV1)
    \/ \E chs \in AlignChs : Align(chs) /\ Within(MaxV1)
    \/ \E t \in SyncTimes : SyncAllV1(t) /\ Within(MaxV1)

SpecV1 == InitV1 /\ [][NextV1]_vars

\* QickProgram, scheduling calls only, on longer programs
NextSchedV1 ==
    \/ \E ch \in V1Chs, t \in V1Times : ConstPulse(ch, "c2", t) /\ Within(MaxSched)
    \/ \E ch \in V1Chs, t \in V1Times : ArbPulse(ch, "a1", t) /\ Within(MaxSched)
    \/ \E chs \in AlignChs : Align(chs) /\ Within(MaxSched)
    \/ \E t \in SyncTimes : SyncAllV1(t) /\ Within(MaxSched)

SpecSchedV1 == InitV1 /\ [][NextSchedV1]_vars

\* QickProgram, immediates
NextImmV1 ==
    \/ \E val \in ImmValues : ConvertImmediate(val) /\ Within(MaxV1)
    \/ \E imm \in SafeImms : SafeRegwi(0, 1, imm) /\ Within(MaxV1)

SpecImmV1 == InitV1 /\ [][NextImmV1]_vars

\* QickProgram, instructions written one by one and compiled
NextEncV1 ==
    \/ \E inst \in EncInsts : AppendInst(inst) /\ Within(MaxEnc)
    \/ \E name \in LabelNames : Label(name) /\ Within(MaxEnc)
    \/ Compile /\ Within(MaxEnc)

SpecEncV1 == InitV1 /\ [][NextEncV1]_vars

\* either builder, every call
Spec == (InitV1 \/ InitV2) /\ [][NextV1 \/ NextV2]_vars

\* either builder, scheduling calls only
SpecSched == (InitV1 \/ InitV2) /\ [][NextSchedV1 \/ NextSchedV2]_vars

(***************************************************************************)
(* QickProgramV2: the pulse library, the calls.                            *)
(***************************************************************************)
\* self._gen_mgrs[ch].add_envelope(name, idata, qdata)
AddEnvelope(ch, name, idata, qdata) ==
    /\ cls = "V2"
    /\ LET r == add_envelope(Lib, ch, name, idata, qdata)
       IN  /\ SetLib(r.lib)
           /\ Record("add_envelope",
                     [ch |-> ch, name |-> name, idata |-> idata, qdata |-> qdata], r.err)
    /\ UNCHANGED <<cls, prog_list, labels, auto_hist, v1vars, v2vars, extvars>>

\* add_pulse(ch, name, **params)
AddPulse(ch, name, params) ==
    /\ cls = "V2"
    /\ LET r == add_pulse(Lib, ch, name, params)
       IN  /\ SetLib(r.lib)
           /\ Record("add_pulse", [ch |-> ch, name |-> name, params |-> params], r.err)
    /\ UNCHANGED <<cls, prog_list, labels, auto_hist, v1vars, v2vars, extvars>>

\* add_wave(name, wave)
AddWave(name, wave) ==
    /\ cls = "V2"
    /\ SetLib(add_wave(Lib, name, wave))
    /\ Record("add_wave", [name |-> name, wave |-> wave], "ok")
    /\ UNCHANGED <<cls, prog_list, labels, auto_hist, v1vars, v2vars, extvars>>

\* compile_waves()
CompileWaves ==
    /\ cls = "V2"
    /\ LET r == compile_waves(Lib)
       IN  last' = [op |-> "compile_waves", args |-> <<>>, err |-> r.err, ret |-> r.ret]
    /\ UNCHANGED <<cls, prog_list, labels, auto_hist, v1vars, v2vars, libvars, extvars>>

\* envelope arrays: None, no sample, samples within maxv, samples beyond it
EnvArrays == {<<>>, <<<<>>>>, <<<<1, -3>>>>, <<<<1, 2, 3>>>>, <<<<4, 0>>>>}
EnvNames == {"e"}
LibPulseNames == {"a", "b"}

\* the parameters of a pulse of the given style, with the keys in more and
\* without the key in less
PulseParams(style, env, more, less) ==
    [k \in (PARAMS_REQUIRED(style) \cup DOMAIN more) \ less |->
        CASE k = "style" -> style
          [] k = "freq" -> 100
          [] k = "phase" -> 50
          [] k = "gain" -> 1
          [] k = "length" -> 5
          [] k = "envelope" -> env
          [] OTHER -> more[k]]

LibParams ==
    {PulseParams("arb", e, <<>>, {}) : e \in {"e", "f"}}
    \cup {PulseParams(st, "e", <<>>, {}) : st \in {"const", "flat_top"}}
    \cup {PulseParams("arb", "e", [outsel |-> "dds"], {}),
          PulseParams("arb", "e", [stdysel |-> "first"], {}),
          PulseParams("const", "e", [outsel |-> "dds"], {}),
          PulseParams("arb", "e", <<>>, {"envelope"})}

\* the envelopes the library is tried with, of 3 cycles and of 1 cycle on
\* generator 0
LibEnvArrays == {<<<<1, 2, 3, 2, 1, 0>>>>, <<<<1, -3>>>>}
LibWaveNames == {<<"a", 0>>}
LibWaves == {Wave(1, 2, 0, 3, 4, 9), Wave(1, 2, 8388608, 3, 4, 9)}

\* the part of the library that is explored
WithinLib ==
    /\ Within(MaxLibProg)
    /\ Len(waves') <= MaxWaves
    /\ \A ch \in GenChs : mgr_addr'[ch] <= MaxEnvAddr

NextLibV2 ==
    \/ \E idata \in LibEnvArrays : AddEnvelope(0, "e", idata, <<>>) /\ WithinLib
    \/ \E name \in LibPulseNames, params \in LibParams :
          AddPulse(0, name, params) /\ WithinLib
    \/ \E name \in LibWaveNames, wave \in LibWaves : AddWave(name, wave) /\ WithinLib
    \/ \E name \in LibPulseNames : Pulse(0, name, Auto) /\ WithinLib
    \/ CompileWaves /\ WithinLib

SpecLibV2 == InitNewV2 /\ [][NextLibV2]_vars

\* envelopes only, on either generator
NextEnvV2 ==
    \E ch \in GenChs, name \in EnvNames, idata \in EnvArrays, qdata \in EnvArrays :
        AddEnvelope(ch, name, idata, qdata) /\ WithinLib

SpecEnvV2 == InitNewV2 /\ [][NextEnvV2]_vars

(***************************************************************************)
(* Wave records, parameter checks and the config word: the calls.        *)
(***************************************************************************)
\* field values the records are built from: 8388607 = 2^23 - 1 and 32767 =
\* 2^15 - 1 are the largest values of a 3-byte and a 2-byte field
WaveFreqs == {100, 2147483647, -2147483647}
WavePhases == {50, -3}
WaveEnvs == {3, 8388607, -1, 8388608}
WaveGains == {1000, -1000}
WaveLengths == {200, 65535}
WaveConfs == {5, 32767, -1, 32768}

WaveValues ==
    {Wave(f, p, e, g, l, c) : f \in WaveFreqs, p \in WavePhases, e \in WaveEnvs,
                              g \in WaveGains, l \in WaveLengths, c \in WaveConfs}

\* Wave(...).compile()
WaveCompile(w) ==
    /\ cls = "V2"
    /\ LET r == Wave_compile(w)
       IN  last' = [op |-> "Wave.compile", args |-> [wave |-> w], err |-> r.err,
                    ret |-> r.ret]
    /\ UNCHANGED <<cls, prog_list, labels, auto_hist>>
    /\ UNCHANGED <<v1vars, v2vars, libvars, extvars>>

NextWaveV2 == \E w \in WaveValues : WaveCompile(w)

SpecWaveV2 == InitV2 /\ [][NextWaveV2]_vars

\* parameter dicts: style and phase always, any of the other keys
ParamStyles == {"const", "arb", "flat_top"}
ParamKeys == {"freq", "gain", "length", "envelope", "mode", "outsel", "foo"}
ParamDicts ==
    {[k \in {"style", "phase"} \cup ks |-> IF k = "style" THEN st ELSE "given"] :
        st \in ParamStyles, ks \in SUBSET ParamKeys}

Outsels == {<<>>, <<"product">>, <<"dds">>, <<"input">>, <<"zero">>, <<"sum">>}
Modes == {<<>>, <<"oneshot">>, <<"periodic">>}
Stdysels == {<<>>, <<"last">>, <<"zero">>}
Phrsts == {<<>>, <<0>>, <<1>>}

\* self._gen_mgrs[ch].check_params(params)
CheckParams(params) ==
    /\ cls = "V2"
    /\ LET r == check_params(params)
       IN  last' = [op |-> "check_params", args |-> [params |-> params], err |-> r.err,
                    msg |-> r.msg]
    /\ UNCHANGED <<cls, prog_list, labels, auto_hist>>
    /\ UNCHANGED <<v1vars, v2vars, libvars, extvars>>

\* self._gen_mgrs[ch].cfg2reg(outsel, mode, stdysel, phrst)
Cfg2Reg(outsel, mode, stdysel, phrst) ==
    /\ cls = "V2"
    /\ LET r == cfg2reg(outsel, mode, stdysel, phrst)
       IN  last' = [op |-> "cfg2reg",
                    args |-> [outsel |-> outsel, mode |-> mode, stdysel |-> stdysel,
                              phrst |-> phrst],
                    err |-> r.err, ret |-> r.ret]
    /\ UNCHANGED <<cls, prog_list, labels, auto_hist>>
    /\ UNCHANGED <<v1vars, v2vars, libvars, extvars>>

NextParamsV2 == \E params \in ParamDicts : CheckParams(params)

SpecParamsV2 == InitV2 /\ [][NextParamsV2]_vars

NextCfgV2 ==
    \E outsel \in Outsels, mode \in Modes, stdysel \in Stdysels, phrst \in Phrsts :
        Cfg2Reg(outsel, mode, stdysel, phrst)

SpecCfgV2 == InitV2 /\ [][NextCfgV2]_vars

(***************************************************************************)
(* The driver blocks that move data by DMA (qick.py): the signal generator, *)
(* the average and buffer block and the tProc data memory.  A DMA channel  *)
(* is asked for a number of bytes and reports in transferred how many it   *)
(* moved: any count up to the request, in whole 32-bit words.              *)
(***************************************************************************)
\* AxisSignalGenV4.MAX_LENGTH = 2**N * N_DDS
MAX_LENGTH == 4

\* AxisAvgBuffer.AVG_MAX_LENGTH = 2**N_AVG
AVG_MAX_LENGTH == 8

\* AxisAvgBuffer.BUF_MAX_LENGTH = 2**N_BUF
BUF_MAX_LENGTH == 6

\* np.iinfo(np.int16).min and .max
int16_min == -32768
int16_max == 32767

\* dma.<channel>.transferred after transfer(buffer of nbytes) and wait()
Transferred(nbytes) == {n \in 0..nbytes : n % 4 = 0}

\* the registers as the constructors leave them; no transfer made yet
InitSoc ==
    /\ cls = "SOC"
    /\ prog_list = <<>>
    /\ labels = <<>>
    /\ p_addr = 0
    /\ line = 0
    /\ user_regs = <<>>
    /\ user_reg_dict = <<>>
    /\ loop_list = <<>>
    /\ loop_stack = <<>>
    /\ gen_ts = <<>>
    /\ ro_ts = <<>>
    /\ dac_ts = <<>>
    /\ last_pulse = <<>>
    /\ last = [op |-> "init", args |-> <<>>, err |-> "ok", ret |-> <<>>]
    /\ auto_hist = <<>>
    /\ open_hist = <<>>
    /\ waves = <<>>
    /\ wave2idx = <<>>
    /\ pulses = <<>>
    /\ envelopes = <<>>
    /\ mgr_addr = <<>>
    /\ heap = <<>>
    /\ soc = [start_addr_reg |-> 0, we_reg |-> 0, gen_buff |-> 0,
              avg_dr_addr_reg |-> 0, avg_dr_len_reg |-> 0, avg_dr_start_reg |-> 0,
              buf_dr_addr_reg |-> 0, buf_dr_len_reg |-> 0, buf_dr_start_reg |-> 0,
              mem_mode_reg |-> 0, mem_addr_reg |-> 0, mem_len_reg |-> 0,
              mem_start_reg |-> 0, tproc_buff |-> 0,
              channel |-> "", requested |-> 0, transferred |-> 0, transfers |-> 0]

\* channel.transfer(buffer) and channel.wait(): the channel now reports n bytes
dma_transfer(s, channel, nbytes, n) ==
    [s EXCEPT !.channel = channel, !.requested = nbytes, !.transferred = n,
              !.transfers = @ + 1]

Returns(op, args, err, ret) ==
    last' = [op |-> op, args |-> args, err |-> err, ret |-> ret]

SocFrame ==
    UNCHANGED <<cls, prog_list, labels, auto_hist, v1vars, v2vars, libvars, heap>>

Max_(S) == CHOOSE x \in S : \A y \in S : y <= x
Min_(S) == CHOOSE x \in S : \A y \in S : x <= y
Values(a) == {a[i] : i \in 1..Len(a)}

\* AxisSignalGenV4.load(xin_i, xin_q, addr): the two length checks print and
\* return; the buffer holds one 32-bit word per sample
Load(xin_i, xin_q, addr, n) ==
    /\ cls = "SOC"
    /\ LET args == [xin_i |-> xin_i, xin_q |-> xin_q, addr |-> addr]
       IN  IF Len(xin_i) # Len(xin_q) \/ Len(xin_i) > MAX_LENGTH
           THEN Returns("load", args, "ok", <<>>) /\ soc' = soc
           ELSE IF Len(xin_i) % 2 # 0
           THEN Returns("load", args, "RuntimeError", <<>>) /\ soc' = soc
           ELSE IF \/ Max_(Values(xin_i)) > int16_max \/ Min_(Values(xin_i)) < int16_min
                   \/ Max_(Values(xin_q)) > int16_max \/ Min_(Values(xin_q)) < int16_min
           THEN Returns("load", args, "ValueError", <<>>) /\ soc' = soc
           ELSE /\ n \in Transferred(4 * Len(xin_i))
                /\ soc' = [dma_transfer([soc EXCEPT !.gen_buff = Len(xin_i),
                                                    !.start_addr_reg = addr],
                                        "gen.dma.sendchannel", 4 * Len(xin_i), n)
                              EXCEPT !.we_reg = 0]
                /\ Returns("load", args, "ok", <<>>)
    /\ SocFrame

\* AxisAvgBuffer.transfer_avg(address, length): 8 bytes per sample
TransferAvg(address, length, n) ==
    /\ cls = "SOC"
    /\ LET args == [address |-> address, length |-> length]
       IN  IF length % 2 # 0 \/ length >= AVG_MAX_LENGTH
           THEN Returns("transfer_avg", args, "RuntimeError", <<>>) /\ soc' = soc
           ELSE /\ n \in Transferred(length * 8)
                /\ LET s == dma_transfer([soc EXCEPT !.avg_dr_addr_reg = address,
                                                     !.avg_dr_len_reg = length,
                                                     !.avg_dr_start_reg = 1],
                                         "avg.dma_avg.recvchannel", length * 8, n)
                   IN  IF s.transferred # length * 8
                       THEN /\ soc' = s
                            /\ Returns("transfer_avg", args, "RuntimeError", <<>>)
                       ELSE /\ soc' = [s EXCEPT !.avg_dr_start_reg = 0]
                            /\ Returns("transfer_avg", args, "ok",
                                       [nrows |-> 2, ncols |-> length])
    /\ SocFrame

\* AxisAvgBuffer.transfer_buf(address, length): 4 bytes per sample
TransferBuf(address, length, n) ==
    /\ cls = "SOC"
    /\ LET args == [address |-> address, length |-> length]
       IN  IF length % 2 # 0 \/ length >= BUF_MAX_LENGTH
           THEN Returns("transfer_buf", args, "RuntimeError", <<>>) /\ soc' = soc
           ELSE /\ n \in Transferred(length * 4)
                /\ LET s == dma_transfer([soc EXCEPT !.buf_dr_addr_reg = address,
                                                     !.buf_dr_len_reg = length,
                                                     !.buf_dr_start_reg = 1],
                                         "avg.dma_buf.recvchannel", length * 4, n)
                   IN  IF s.transferred # length * 4
                       THEN /\ soc' = s
                            /\ Returns("transfer_buf", args, "RuntimeError", <<>>)
                       ELSE /\ soc' = [s EXCEPT !.buf_dr_start_reg = 0]
                            /\ Returns("transfer_buf", args, "ok",
                                       [nrows |-> 2, ncols |-> length])
    /\ SocFrame

\* AxisTProc64x32_x8.load_dmem(buff_in, addr): one int32 per element
LoadDmem(length, addr, n) ==
    /\ cls = "SOC"
    /\ n \in Transferred(4 * length)
    /\ soc' = [dma_transfer([soc EXCEPT !.mem_mode_reg = 1, !.mem_addr_reg = addr,
                                        !.mem_len_reg = length, !.tproc_buff = length],
                            "tproc.dma.sendchannel", 4 * length, n)
                  EXCEPT !.mem_start_reg = 0]
    /\ Returns("load_dmem", [buff_in |-> length, addr |-> addr], "ok", <<>>)
    /\ SocFrame

\* AxisTProc64x32_x8.read_dmem(addr, length): returns the buffer it allocated
ReadDmem(addr, length, n) ==
    /\ cls = "SOC"
    /\ n \in Transferred(4 * length)
    /\ soc' = [dma_transfer([soc EXCEPT !.mem_mode_reg = 0, !.mem_addr_reg = addr,
                                        !.mem_len_reg = length],
                            "tproc.dma.recvchannel", 4 * length, n)
                  EXCEPT !.mem_start_reg = 0]
    /\ Returns("read_dmem", [addr |-> addr, length |-> length], "ok",
               [nrows |-> 1, ncols |-> length])
    /\ SocFrame

MaxTransfers == 2
SocAddrs == {0, 1}
SocLengths == {2, 3, 4, 6, 8}
SocArrays == {<<1, -2>>, <<1, 2, 3>>, <<1, 2, 3, 4>>, <<40000, 1>>, <<1, 2, 3, 4, 5, 6>>}
SocCounts == Transferred(8 * 6)

NextSoc ==
    /\ soc.transfers < MaxTransfers
    /\ \/ \E xin_i \in SocArrays, xin_q \in SocArrays, addr \in SocAddrs, n \in SocCounts :
            Load(xin_i, xin_q, addr, n)
       \/ \E address \in SocAddrs, length \in SocLengths, n \in SocCounts :
            TransferAvg(address, length, n)
       \/ \E address \in SocAddrs, length \in SocLengths, n \in SocCounts :
            TransferBuf(address, length, n)
       \/ \E length \in {2, 4}, addr \in SocAddrs, n \in SocCounts :
            LoadDmem(length, addr, n)
       \/ \E addr \in SocAddrs, length \in {2, 4}, n \in SocCounts :
            ReadDmem(addr, length, n)

SpecSoc == InitSoc /\ [][NextSoc]_vars

(***************************************************************************)
(* Two builders side by side.  Every list and dict is an object with an    *)
(* identity: heap.objs[id] is its value, an instance holds the identities  *)
(* its __init__ bound to its attributes, and the class holds those of its  *)
(* tables.  A method writes through the identities of the instance it is   *)
(* called on (self).                                                       *)
(***************************************************************************)
\* the class attributes of QickProgram, created once when the class is defined
class_tables ==
    <<[name \in mnemonics |-> [bin |-> bin(name), fmt |-> fmt(name)]],
      [op \in op_codes |-> op_code(op)],
      [ch \in 1..7 |-> [name \in {"freq", "phase", "addr", "gain", "mode", "t"} |->
                           sreg(ch, name)]]>>

TableIds == 1..Len(class_tables)

\* the attributes __init__ binds to a new list or dict, in the order of the
\* assignments, and the value each starts with
Fields(kind) ==
    IF kind = "V1" THEN <<"prog_list", "labels", "dac_ts", "channels">>
    ELSE <<"prog_list", "labels", "user_reg_dict", "user_regs", "loop_list",
           "loop_stack", "waves", "wave2idx", "pulses">>

Fresh_(kind) ==
    IF kind = "V1"
    THEN <<<<>>, <<>>, [ch \in 0..8 |-> 0],
           [ch \in 1..7 |-> [addr |-> 0, pulses |-> <<>>, last_pulse |-> <<>>]]>>
    ELSE <<<<>>, ("s15" :> <<"s", 15>>), <<>>, <<>>, <<>>, <<>>, <<>>, <<>>, <<>>>>

\* a plausible slip: the lists and dicts are attributes of the class, one
\* object for all instances
new_object_of_class(objs, slot) == Len(class_tables) + slot

\* the identity of the object that the slot-th [] or {} of __init__ creates
new_object(objs, slot) == Len(objs) + 1

\* __init__: the heap and the identities after the first k assignments
RECURSIVE construct(_, _, _)
construct(objs, kind, k) ==
    IF k = 0 THEN [objs |-> objs, ids |-> <<>>]
    ELSE LET c == construct(objs, kind, k - 1)
             id == new_object(c.objs, k)
         IN  [objs |-> IF id > Len(c.objs) THEN Append(c.objs, Fresh_(kind)[k]) ELSE c.objs,
              ids |-> Append(c.ids, id)]

\* the instance __init__ leaves: its attributes by name
instance(kind, ids) ==
    [f \in {Fields(kind)[k] : k \in 1..Len(ids)} |->
        ids[CHOOSE k \in 1..Len(ids) : Fields(kind)[k] = f]]
    @@ [kind |-> kind, p_addr |-> 1, line |-> 1]

InitHeap ==
    /\ cls = "HEAP"
    /\ prog_list = <<>>
    /\ labels = <<>>
    /\ p_addr = 0
    /\ line = 0
    /\ user_regs = <<>>
    /\ user_reg_dict = <<>>
    /\ loop_list = <<>>
    /\ loop_stack = <<>>
    /\ gen_ts = <<>>
    /\ ro_ts = <<>>
    /\ dac_ts = <<>>
    /\ last_pulse = <<>>
    /\ last = Call("class", <<>>, "ok")
    /\ auto_hist = <<>>
    /\ open_hist = <<>>
    /\ waves = <<>>
    /\ wave2idx = <<>>
    /\ pulses = <<>>
    /\ envelopes = <<>>
    /\ mgr_addr = <<>>
    /\ heap = [objs |-> class_tables, progs |-> <<>>, calls |-> 0]
    /\ soc = <<>>

HeapFrame ==
    UNCHANGED <<cls, prog_list, labels, auto_hist, v1vars, v2vars, libvars, soc>>

\* self.<field>, and the heap after self.<field> has been changed in place
Attr(i, f) == heap.objs[heap.progs[i][f]]
Write(h, i, f, v) == [h EXCEPT !.objs[h.progs[i][f]] = v]
Called(h) == [h EXCEPT !.calls = @ + 1]
IsA(i, kind) == cls = "HEAP" /\ i \in DOMAIN heap.progs /\ heap.progs[i].kind = kind

\* QickProgram(cfg) or QickProgramV2(soccfg)
Construct(kind) ==
    /\ cls = "HEAP"
    /\ LET c == construct(heap.objs, kind, Len(Fields(kind)))
       IN  heap' = [heap EXCEPT !.objs = c.objs,
                                !.progs = Append(@, instance(kind, c.ids))]
    /\ Record("__init__", [self |-> Len(heap.progs) + 1], "ok")
    /\ HeapFrame

\* QickProgram.append_instruction
HAppendInst(i, inst) ==
    /\ IsA(i, "V1")
    /\ heap' = Called(Write(heap, i, "prog_list",
                            append_instruction(Attr(i, "prog_list"), inst)))
    /\ Record("append_instruction", [self |-> i], "ok")
    /\ HeapFrame

\* QickProgram.label
HLabel(i, name) ==
    /\ IsA(i, "V1")
    /\ heap' = Called(Write(heap, i, "labels",
                            label(Attr(i, "labels"), name, Attr(i, "prog_list"))))
    /\ Record("label", [self |-> i], "ok")
    /\ HeapFrame

\* QickProgram.add_pulse(ch, name, style='const', length=length)
HAddPulseV1(i, ch, name, length) ==
    /\ IsA(i, "V1")
    /\ heap' = Called(Write(heap, i, "channels",
                  [Attr(i, "channels") EXCEPT ![ch].pulses =
                      (name :> [style |-> "const", addr |-> 0, length |-> length]) @@ @]))
    /\ Record("add_pulse", [self |-> i], "ok")
    /\ HeapFrame

\* QickProgram.const_pulse(ch, name, t=t)
HConstPulse(i, ch, name, t) ==
    /\ IsA(i, "V1")
    /\ IF name \notin DOMAIN Attr(i, "channels")[ch].pulses
       THEN heap' = Called(heap) /\ Record("const_pulse", [self |-> i], "KeyError")
       ELSE LET pinfo == Attr(i, "channels")[ch].pulses[name]
                ts == Attr(i, "dac_ts")[ch]
                h1 == Write(heap, i, "channels",
                            [Attr(i, "channels") EXCEPT ![ch].last_pulse = <<name>>])
                h2 == Write(h1, i, "dac_ts",
                            [Attr(i, "dac_ts") EXCEPT ![ch] =
                                const_pulse_timestamp(ts, pinfo.length, t)])
                h3 == Write(h2, i, "prog_list", append_instructions(Attr(i, "prog_list"),
                          set_pulse_registers(ch, <<>>, <<1>>, <<pinfo.length>>, <<t>>)
                          \o <<I("regwi", <<ch_page(ch), sreg(ch, "t")>>,
                                 ToWide(const_pulse_time(ts, t)), <<>>),
                               set_inst(ch)>>))
            IN  heap' = Called(h3) /\ Record("const_pulse", [self |-> i], "ok")
    /\ HeapFrame

\* QickProgram.sync_all(t)
HSyncAll(i, t) ==
    /\ IsA(i, "V1")
    /\ LET max_t == dac_max(Attr(i, "dac_ts"))
           h1 == Write(heap, i, "prog_list", append_instruction(Attr(i, "prog_list"),
                       I("synci", <<>>, ToWide(max_t + t), <<>>)))
           h2 == Write(h1, i, "dac_ts", [ch \in 0..8 |-> 0])
       IN  heap' = Called(IF sync_all_resets(max_t, t) THEN h2 ELSE heap)
    /\ Record("sync_all", [self |-> i], "ok")
    /\ HeapFrame

\* QickProgram.compile(): reads the class tables through self.__class__
HCompile(i) ==
    /\ IsA(i, "V1")
    /\ heap' = Called(heap)
    /\ LET e == compile(Attr(i, "prog_list"), Attr(i, "labels"))
       IN  last' = [op |-> "compile", args |-> [self |-> i], err |-> e,
                    ret |-> IF e = "ok"
                            THEN compile_words(Attr(i, "prog_list"), Attr(i, "labels"))
                            ELSE <<>>]
    /\ HeapFrame

\* QickProgramV2.add_label
HAddLabel(i, name) ==
    /\ IsA(i, "V2")
    /\ heap' = Called(Write(heap, i, "labels",
                            add_label(Attr(i, "labels"), name, Attr(i, "prog_list"))))
    /\ Record("add_label", [self |-> i], "ok")
    /\ HeapFrame

\* QickProgramV2.end
HEnd(i) ==
    /\ IsA(i, "V2")
    /\ LET pg == end_inst([prog_list |-> Attr(i, "prog_list"),
                           p_addr |-> heap.progs[i].p_addr, line |-> heap.progs[i].line])
       IN  heap' = Called([Write(heap, i, "prog_list", pg.prog_list)
                              EXCEPT !.progs[i].p_addr = pg.p_addr,
                                     !.progs[i].line = pg.line])
    /\ Record("end", [self |-> i], "ok")
    /\ HeapFrame

\* the pulse library of self as one record; the envelopes are those of a new
\* program
HLib(i) ==
    [waves |-> Attr(i, "waves"), wave2idx |-> Attr(i, "wave2idx"),
     pulses |-> Attr(i, "pulses"), envelopes |-> EmptyLib.envelopes,
     mgr_addr |-> EmptyLib.mgr_addr]

WriteLib(h, i, lib) ==
    Write(Write(Write(h, i, "waves", lib.waves), i, "wave2idx", lib.wave2idx),
          i, "pulses", lib.pulses)

\* QickProgramV2.add_wave
HAddWave(i, name, wave) ==
    /\ IsA(i, "V2")
    /\ heap' = Called(WriteLib(heap, i, add_wave(HLib(i), name, wave)))
    /\ Record("add_wave", [self |-> i], "ok")
    /\ HeapFrame

\* QickProgramV2.add_pulse
HAddPulse(i, ch, name, params) ==
    /\ IsA(i, "V2")
    /\ LET r == add_pulse(HLib(i), ch, name, params)
       IN  heap' = Called(WriteLib(heap, i, r.lib)) /\ Record("add_pulse", [self |-> i], r.err)
    /\ HeapFrame

\* QickProgramV2.compile_waves
HCompileWaves(i) ==
    /\ IsA(i, "V2")
    /\ heap' = Called(heap)
    /\ LET r == compile_waves(HLib(i))
       IN  last' = [op |-> "compile_waves", args |-> [self |-> i], err |-> r.err,
                    ret |-> r.ret]
    /\ HeapFrame

MaxCalls == 3
MaxInstances == 2
HeapInsts == {I("regwi", <<0, 1>>, ToWide(5), <<>>), I("loopnz", <<0, 1>>, <<>>, <<"L">>)}
HeapParams == {PulseParams(st, "e", <<>>, {}) : st \in {"const", "flat_top"}}

NextHeap ==
    \/ \E kind \in {"V1", "V2"} : Construct(kind) /\ Len(heap.progs) < MaxInstances
    \/ /\ cls = "HEAP"
       /\ heap.calls < MaxCalls
       /\ \E i \in 1..MaxInstances :
            \/ \E inst \in HeapInsts : HAppendInst(i, inst)
            \/ HLabel(i, "L")
            \/ HAddPulseV1(i, 1, "c2", 2)
            \/ HConstPulse(i, 1, "c2", Auto)
            \/ HSyncAll(i, 0)
            \/ HCompile(i)
            \/ HAddLabel(i, "L")
            \/ HEnd(i)
            \/ HAddWave(i, <<"a", 0>>, Wave(1, 2, 0, 3, 4, 9))
            \/ \E params \in HeapParams : HAddPulse(i, 0, "a", params)
            \/ HCompileWaves(i)

SpecHeap == InitHeap /\ [][NextHeap]_vars

(***************************************************************************)
(* QickProgramV2: trigger() alone, with readouts and pins on several      *)
(* ports.                                                                  *)
(***************************************************************************)
MaxTrig == 6
TrigRos == {<<>>, <<0>>, <<1>>, <<0, 1>>, <<1, 0>>}
TrigPins == {<<>>, <<0>>, <<1>>, <<0, 1>>, <<1, 0>>, <<2>>, <<0, 2>>}

NextTrigV2 ==
    \E ros \in TrigRos, pins \in TrigPins, t \in TriggerTimes :
        Trigger(ros, pins, t, DefaultWidth) /\ Within(MaxTrig)

SpecTrigV2 == InitV2 /\ [][NextTrigV2]_vars

(***************************************************************************)
(* QickProgramV2: the length of the waves, the calls.                      *)
(***************************************************************************)
\* params2wave(...) of the manager of generator 0, called on its own
Params2Wave(lenreg) ==
    /\ cls = "V2"
    /\ LET w == params2wave(freq2reg(100), deg2reg(50), 3, <<lenreg>>, 0,
                            <<>>, <<>>, <<>>, <<>>)
       IN  last' = [op |-> "params2wave", args |-> [lenreg |-> lenreg], err |-> w.err,
                    ret |-> w.wave]
    /\ UNCHANGED <<cls, prog_list, labels, auto_hist, v1vars, v2vars, libvars, extvars>>

\* lengths below 3, the two ends of the range and 2^16
LenRegs == {0, 2, 3, 65535, 65536}

\* every style with a length in range and, for const and flat_top, a length
\* of one cycle
LenParams ==
    {PulseParams(st, "e", <<>>, {}) : st \in {"arb", "const", "flat_top"}}
    \cup {[PulseParams(st, "e", <<>>, {}) EXCEPT !.length = 1] : st \in {"const", "flat_top"}}

NextLenV2 ==
    \/ \E idata \in LibEnvArrays : AddEnvelope(0, "e", idata, <<>>) /\ WithinLib
    \/ \E name \in LibPulseNames, params \in LenParams :
          AddPulse(0, name, params) /\ WithinLib
    \/ \E lenreg \in LenRegs : Params2Wave(lenreg) /\ WithinLib

SpecLenV2 == InitNewV2 /\ [][NextLenV2]_vars

(***************************************************************************)
(* QickProgram: the two ways to append an instruction.                     *)
(***************************************************************************)
\* self.<name>(*args): __getattr__ hands out append_instruction for the
\* names of the instruction table and raises AttributeError for any other
Mnemonic(inst) ==
    /\ cls = "V1"
    /\ IF inst.name \in mnemonics
       THEN /\ prog_list' = append_instruction(prog_list, inst)
            /\ Record("__getattr__", [inst |-> inst], "ok")
       ELSE /\ prog_list' = prog_list
            /\ Record("__getattr__", [inst |-> inst], "AttributeError")
    /\ UNCHANGED <<cls, labels, dac_ts, last_pulse, auto_hist>>
    /\ UNCHANGED <<v2vars, libvars, extvars>>

\* calls of two names of the table and of one that is not in it
MnemInsts ==
    {I("regwi", <<0, 1>>, ToWide(5), <<>>), I("loopnz", <<0, 1>>, <<>>, <<"L">>),
     I("nop", <<0, 1>>, <<>>, <<>>)}

NextMnemV1 ==
    \/ \E inst \in MnemInsts : AppendInst(inst) /\ Within(MaxV1)
    \/ \E inst \in MnemInsts : Mnemonic(inst) /\ Within(MaxV1)
    \/ \E name \in LabelNames : Label(name) /\ Within(MaxV1)
    \/ Compile /\ Within(MaxV1)

SpecMnemV1 == InitV1 /\ [][NextMnemV1]_vars

(***************************************************************************)
(* The claims.                                                             *)
(***************************************************************************)
AddrInc(inst) == IF inst.CMD = "WAIT" THEN 2 ELSE 1

NewInst(k) == prog_list'[Len(prog_list) + k]

\* C1: in QickProgramV2 the program addresses start at 1 and each
\* instruction's address is the previous one's plus the previous one's
\* increment: 2 for WAIT, 1 for every other instruction.
C1_Addresses ==
    cls = "V2" =>
        /\ prog_list # <<>> => prog_list[1].P_ADDR = 1
        /\ \A i \in 1..(Len(prog_list) - 1) :
              prog_list[i + 1].P_ADDR = prog_list[i].P_ADDR + AddrInc(prog_list[i])

C1_Witness ==
    /\ cls = "V2"
    /\ Len(prog_list) >= 4
    /\ \E i \in 1..(Len(prog_list) - 1) : prog_list[i].CMD = "WAIT"
    /\ \E i \in 1..Len(prog_list) : prog_list[i].CMD \in {"WPORT_WR", "TRIG", "TIME"}

\* C2: every call only appends to the instruction list: the list before
\* the call is a prefix of the list after it (both builders).
C2_AppendOnly == [][IsPrefix(prog_list, prog_list')]_vars

C2_Witness ==
    /\ cls = "V1"
    /\ last.op = "const_pulse"
    /\ Len(prog_list) = 4
    /\ prog_list[1].name # "regwi"

\* C3: no pulse or trigger call lowers a channel timestamp.
C3_NeverDecreases ==
    [][last'.op \in {"pulse", "trigger", "const_pulse", "arb_pulse"} =>
          /\ \A ch \in DOMAIN gen_ts : gen_ts'[ch] >= gen_ts[ch]
          /\ \A ro \in DOMAIN ro_ts : ro_ts'[ro] >= ro_ts[ro]
          /\ \A ch \in DOMAIN dac_ts : dac_ts'[ch] >= dac_ts[ch]]_vars

\* the timestamp of channel ch, and the tProc clocks per fabric clock of its
\* pulses as the fraction RateNum / RateDen(ch)
Ts(ch) == IF cls = "V2" THEN gen_ts[ch] ELSE dac_ts[ch]
RateNum == IF cls = "V2" THEN f_time ELSE 1
RateDen(ch) == IF cls = "V2" THEN gens[ch].f_fabric ELSE 1

RECURSIVE SumTrunc(_, _, _)
SumTrunc(lens, num, den) ==
    IF lens = <<>> THEN 0
    ELSE IntTrunc(Head(lens) * num, den) + SumTrunc(Tail(lens), num, den)

AllTimestampsZero ==
    /\ \A ch \in DOMAIN gen_ts : gen_ts[ch] = 0
    /\ \A ro \in DOMAIN ro_ts : ro_ts[ro] = 0
    /\ \A ch \in DOMAIN dac_ts : dac_ts[ch] = 0

\* C5 as stated: after sync_all(t) every channel timestamp is 0, for every t
\* and every prior timestamp state.
C5_AlwaysZero == last.op = "sync_all" => AllTimestampsZero

\* C5 as amended: sync_all(t) sets every channel timestamp to 0 when the
\* latest timestamp plus t (in cycles) is positive, and otherwise leaves
\* every timestamp as it was.
C5_ZeroIfAdvance ==
    [][last'.op = "sync_all" =>
          LET advance == IF cls = "V2"
                         THEN Max({gen_ts[ch] : ch \in DOMAIN gen_ts}
                                  \cup {ro_ts[ro] : ro \in DOMAIN ro_ts})
                              + last'.args.t * f_time
                         ELSE Max({dac_ts[ch] : ch \in 1..8}) + last'.args.t
          IN  IF advance > 0
              THEN AllTimestampsZero'
              ELSE UNCHANGED <<gen_ts, ro_ts, dac_ts, prog_list>>]_vars

C5_Witness ==
    /\ last.op = "sync_all"
    /\ last.args.advanced
    /\ last.args.t < 0
    /\ AllTimestampsZero

\* C6: align(chs) sets the timestamp of every channel in chs to the maximum
\* of the timestamps of the channels in chs.
C6_MaxOfGiven ==
    [][last'.op = "align" =>
          LET given == {last'.args.chs[i] : i \in 1..Len(last'.args.chs)}
          IN  \A ch \in given : dac_ts'[ch] = Max({dac_ts[c] : c \in given})]_vars

C8_LabelIsNextAddress ==
    [][(last.op = "add_label" /\ Len(prog_list') > Len(prog_list)) =>
          labels[last.args.label] = <<"&", NewInst(1).P_ADDR>>]_vars

JumpTarget(inst) == inst.sym[Len(inst.sym)]

Unresolved ==
    \E i \in 1..Len(prog_list) :
        /\ prog_list[i].name \in {"loopnz", "condj"}
        /\ JumpTarget(prog_list[i]) \notin DOMAIN labels

Encodable ==
    \A i \in 1..Len(prog_list) :
        /\ prog_list[i].name \in {"regwi", "synci", "seti", "mathi", "bitwi"} =>
              ~wide_gt_2_31(prog_list[i].imm)
        /\ prog_list[i].name \in {"condj", "mathi", "bitwi"} =>
              prog_list[i].sym[1] \in op_codes

C10_OpenClose ==
    [][/\ (last'.op = "open_loop" /\ last'.err = "ok") =>
             /\ Len(prog_list') = Len(prog_list) + 1
             /\ NewInst(1).CMD = "REG_WR"
             /\ NewInst(1).SRC = "imm"
             /\ NewInst(1).LIT = last'.args.n
       /\ (last.op = "open_loop" /\ last.err = "ok" /\ last'.op = "close_loop") =>
             LET init == prog_list[Len(prog_list)]
             IN  /\ Len(prog_list') = Len(prog_list) + 2
                 /\ NewInst(1).CMD = "REG_WR"
                 /\ NewInst(1).DST = init.DST
                 /\ NewInst(1).OP = <<"r", init.DST[2], "-", 1>>
                 /\ NewInst(1).UF = "1"
                 /\ NewInst(2).CMD = "JUMP"
                 /\ NewInst(2).IF_ = "NZ"
                 /\ NewInst(2).LABEL = Upper(last.args.name)
                 /\ labels'[NewInst(2).LABEL] = <<"&", NewInst(1).P_ADDR>>]_vars

\* C11: each successful close_loop closes the most recently opened loop that
\* is still open: it decrements that loop's counter register and its jump
\* resolves to the label address that loop's own open_loop recorded.
C11_ClosesInnermost ==
    [][(last'.op = "close_loop" /\ last'.err = "ok") =>
          /\ open_hist # <<>>
          /\ LET top == open_hist[Len(open_hist)]
             IN  /\ last'.args.name = top.name
                 /\ NewInst(1).DST = <<"r", top.reg>>
                 /\ NewInst(1).OP = <<"r", top.reg, "-", 1>>
                 /\ NewInst(2).CMD = "JUMP"
                 /\ labels'[NewInst(2).LABEL] = top.label]_vars

\* C12: close_loop() with no loop open fails, appends no instruction and
\* leaves the instruction list, the label table and the register table as
\* they were.
C12_UnbalancedClose ==
    [][(last'.op = "close_loop" /\ open_hist = <<>>) =>
          /\ last'.err # "ok"
          /\ UNCHANGED <<prog_list, p_addr, line, labels, user_regs, user_reg_dict>>]_vars

C12_Witness ==
    /\ last.op = "close_loop"
    /\ last.err = "IndexError"
    /\ Len(loop_list) >= 1
    /\ prog_list[Len(prog_list)].CMD = "JUMP"

\* C13: whatever new_reg and open_loop calls were made, and however they
\* ended, the allocated addresses are pairwise different and all lie in
\* [0, dreg_qty); so do the addresses of the registers in the register table.
C13_UniqueAddresses ==
    cls = "V2" =>
        /\ \A i \in 1..Len(user_regs) : 0 <= user_regs[i] /\ user_regs[i] < dreg_qty
        /\ \A i, j \in 1..Len(user_regs) : i # j => user_regs[i] # user_regs[j]
        /\ \A n, m \in DOMAIN user_reg_dict :
              n # m => user_reg_dict[n] # user_reg_dict[m]
        /\ \A n \in DOMAIN user_reg_dict :
              \E i \in 1..Len(user_regs) : user_regs[i] = user_reg_dict[n]

C13_Witness ==
    /\ Len(user_regs) = dreg_qty
    /\ last.op \in {"new_reg", "open_loop"}
    /\ last.err # "ok"
    /\ Cardinality(DOMAIN user_reg_dict) >= 2

Allocated == {user_regs[i] : i \in 1..Len(user_regs)}

FreeAddrs == (0..(dreg_qty - 1)) \ Allocated

\* C14: new_reg without an address (also when open_loop makes the call)
\* allocates the lowest address of [0, dreg_qty) that is not allocated yet,
\* and fails with the capacity error exactly when none is left.
C14_LowestFree ==
    [][(last'.op \in {"new_reg", "open_loop"} /\ last'.args.addr = <<>>) =>
          IF FreeAddrs = {}
          THEN /\ last'.err = "RuntimeError"
               /\ UNCHANGED <<user_regs, user_reg_dict>>
          ELSE LET lowest == CHOOSE a \in FreeAddrs : \A b \in FreeAddrs : a <= b
               IN  /\ last'.err # "RuntimeError"
                   /\ user_regs' = Append(user_regs, lowest)
                   /\ last'.err = "ok" =>
                         \E n \in DOMAIN user_reg_dict' \ DOMAIN user_reg_dict :
                             /\ user_reg_dict'[n] = lowest
                             /\ user_reg_dict' = (n :> lowest) @@ user_reg_dict]_vars

C14_Witness ==
    /\ last.op = "new_reg"
    /\ last.args.addr = <<>>
    /\ last.err = "ok"
    /\ user_regs = <<0, 2, 1>>

\* C15: new_reg (also when open_loop makes the call) ends with an error when
\* the explicit address is negative, at least dreg_qty or already allocated,
\* and when the name is already in the register table; a call that ends
\* with an error leaves the register table as it was.
C15_Rejects ==
    [][last'.op \in {"new_reg", "open_loop"} =>
          LET addr == last'.args.addr
              named == IF last'.op = "open_loop" THEN {last'.args.name}
                       ELSE {last'.args.regname[i] : i \in 1..Len(last'.args.regname)}
          IN  /\ (addr # <<>> /\ addr[1] < 0) => last'.err # "ok"
              /\ (addr # <<>> /\ addr[1] >= dreg_qty) => last'.err # "ok"
              /\ (addr # <<>> /\ addr[1] \in Allocated) => last'.err # "ok"
              /\ named \cap DOMAIN user_reg_dict # {} => last'.err # "ok"
              /\ last'.err # "ok" => UNCHANGED user_reg_dict]_vars

C15_Witness ==
    /\ last.op = "new_reg"
    /\ last.err = "NameError"
    /\ last.args.addr = <<2>>
    /\ user_reg_dict # <<>>

\* C16: convert_immediate(v) returns v for 0 <= v < 2^31, returns 2^31 + v
\* for -2^31 <= v < 0, and raises an error for v >= 2^31 and for v < -2^31.
C16_ConvertImmediate ==
    last.op = "convert_immediate" =>
        LET hi == last.args.val[1]
            lo == last.args.val[2]
        IN  /\ (0 <= hi /\ hi < 32768) => (last.err = "ok" /\ last.ret = <<hi, lo>>)
            /\ (-32768 <= hi /\ hi < 0) =>
                  (last.err = "ok" /\ last.ret = <<hi + 32768, lo>>)
            /\ (hi >= 32768 \/ hi < -32768) => last.err # "ok"

\* C17: safe_regwi(rp, reg, imm) appends one instruction when imm < 2^30,
\* two (a write and a shift left by 2) when imm >= 2^30 is divisible by 4,
\* and three (a write, a shift left by 2 and an addition) when imm >= 2^30
\* is not divisible by 4.
C17_InstructionCount ==
    [][last'.op = "safe_regwi" =>
          LET imm == last'.args.imm
              k == Len(prog_list') - Len(prog_list)
              small == imm[1] < 16384
              div4 == imm[2] % 4 = 0
          IN  /\ IsPrefix(prog_list, prog_list')
              /\ k = (IF small THEN 1 ELSE IF div4 THEN 2 ELSE 3)
              /\ NewInst(1).name = "regwi"
              /\ ~small =>
                    /\ NewInst(2).name = "bitwi"
                    /\ NewInst(2).sym = <<"<<">>
                    /\ NewInst(2).imm = <<0, 2>>
              /\ (~small /\ ~div4) =>
                    /\ NewInst(3).name = "mathi"
                    /\ NewInst(3).sym = <<"+">>]_vars

C17_Witness ==
    /\ last.op = "safe_regwi"
    /\ last.args.imm = <<32768, 2>>
    /\ Len(prog_list) = 4
    /\ prog_list[4].name = "mathi"
    /\ prog_list[1].name = "regwi"

\* a 32-bit register shifted left by 2, and added to
Shl2_32(w) == <<(w[1] * 4 + (w[2] * 4) \div 65536) % 65536, (w[2] * 4) % 65536>>

Add_32(w, x) == <<(w[1] + x[1] + (w[2] + x[2]) \div 65536) % 65536, (w[2] + x[2]) % 65536>>

\* the register after the instructions insts, run in order from content r
RECURSIVE Simulate(_, _)
Simulate(insts, r) ==
    IF insts = <<>> THEN r
    ELSE LET i == Head(insts)
             r1 == CASE i.name = "regwi" -> i.imm
                     [] i.name = "bitwi" -> Shl2_32(r)
                     [] i.name = "mathi" -> Add_32(r, i.imm)
         IN  Simulate(Tail(insts), r1)

\* C18: for 2^30 <= imm < 2^32, running the instructions that safe_regwi
\* emitted on a 32-bit register leaves imm in it, and every immediate they
\* write is below 2^30.
C18_Reconstructs ==
    [][(last'.op = "safe_regwi" /\ last'.args.imm[1] >= 16384
        /\ last'.args.imm[1] < 65536) =>
          LET emitted == SubSeq(prog_list', Len(prog_list) + 1, Len(prog_list'))
          IN  /\ Simulate(emitted, <<0, 0>>) = last'.args.imm
              /\ \A i \in 1..Len(emitted) : emitted[i].imm[1] < 16384]_vars


(***************************************************************************)
(* Encoding.  The instruction table gives offsets only; the width of a     *)
(* field is the distance to the next offset of the layout 0, 11, 16, 21,   *)
(* 26, 31, 36, 41, 46, 50, 53, 56, and an immediate at offset 0 has the    *)
(* 31 bits below the field at 31.                                          *)
(***************************************************************************)
width(off) ==
    CASE off \in {53, 50} -> 3
      [] off = 46 -> 4
      [] off = 0 -> 31
      [] OTHER -> 5

\* the number read from the word at a field, as the set of its bits
field(word, off) == {b - off : b \in {c \in word : c >= off /\ c < off + width(off)}}

\* the top 8 bits of the word
opcode(word) == {b - 56 : b \in {c \in word : c >= 56}}

\* the number <<hi, lo>> is held by the field at off
fits(w, off) == w[1] >= 0 /\ \A b \in bits(w) : b < width(off)

\* some operand of the instruction is too large for its field
Oversized(inst, lbls) ==
    \E k \in 1..Len(fmt(inst.name)) :
        ~fits(resolved_args(inst, lbls)[fmt(inst.name)[k][1] + 1], fmt(inst.name)[k][2])

\* the operands are not negative and every one is held by its field
Fits(inst, lbls) ==
    /\ ~Oversized(inst, lbls)
    /\ inst_type(inst.name) = "I" => call_args(inst)[Len(fmt(inst.name))][1] >= 0

\* the word has the opcode of the mnemonic in its top 8 bits, nothing above
\* them, and at every offset of the format the operand that was given
Decodes(word, inst, lbls) ==
    /\ word \subseteq 0..63
    /\ opcode(word) = bits(ToWide(bin(inst.name)))
    /\ inst_type(inst.name) = "I" =>
          resolved_args(inst, lbls)[Len(fmt(inst.name))]
              = call_args(inst)[Len(fmt(inst.name))]
    /\ \A k \in 1..Len(fmt(inst.name)) :
          field(word, fmt(inst.name)[k][2])
              = bits(resolved_args(inst, lbls)[fmt(inst.name)[k][1] + 1])

\* C19: when compile() succeeds, the word of every instruction whose operands
\* fit their fields carries the opcode of its mnemonic in the top 8 bits and,
\* at each offset of its format, exactly the operand that was given there.
C19_RoundTrip ==
    (last.op = "compile" /\ last.err = "ok") =>
        \A i \in 1..Len(prog_list) :
            Fits(prog_list[i], labels) => Decodes(last.ret[i], prog_list[i], labels)

C19_Witness ==
    /\ last.op = "compile"
    /\ last.err = "ok"
    /\ Len(prog_list) = 1
    /\ prog_list[1] = I("condj", <<5, 21, 10>>, <<>>, <<"<", "L">>)
    /\ labels["L"] = 1
    /\ Fits(prog_list[1], labels)
    /\ field(last.ret[1], 46) = bits(ToWide(2))

\* C20: compile() of a program that holds an instruction with an operand too
\* large for its field ends with an error.
C20_RangeError ==
    (last.op = "compile" /\ \E i \in 1..Len(prog_list) : Oversized(prog_list[i], labels))
        => last.err # "ok"

(***************************************************************************)
(* Wave records.                                                           *)
(***************************************************************************)
\* the record of the last Wave.compile() call
CompiledWave == last.args.wave

\* C21: Wave.compile() lays the fields out as freq (4 bytes), phase (4), env
\* (3), gain (4), length (4), conf (2), little-endian, with one zero byte at
\* offset 11 (22 bytes) and zeros up to 32 bytes; read as eight 32-bit words
\* the record is [freq, phase, env's three bytes under a zero byte, gain,
\* length, conf's two bytes under two zero bytes, 0, 0].
C21_WaveLayout ==
    (last.op = "Wave.compile" /\ last.err = "ok") =>
        LET w == CompiledWave
            raw == rawbytes(w)
        IN  /\ Len(raw) = 21
            /\ Len(with_zero_byte(raw)) = 22
            /\ with_zero_byte(raw)[12] = 0
            /\ Len(paddedbytes(raw)) = 32
            /\ last.ret = <<w.freq, w.phase, w.env % 16777216, w.gain, w.length,
                            w.conf % 65536, 0, 0>>

C21_Witness ==
    /\ last.op = "Wave.compile"
    /\ last.err = "ok"
    /\ CompiledWave = Wave(100, 50, 3, 1000, 200, 5)
    /\ last.ret = <<100, 50, 3, 1000, 200, 5, 0, 0>>

\* C21 as stated: the sixth word is conf itself for every value that the
\* 2-byte field takes.
C21_WordsAreFields ==
    (last.op = "Wave.compile" /\ last.err = "ok") =>
        last.ret = <<CompiledWave.freq, CompiledWave.phase, CompiledWave.env % 16777216,
                     CompiledWave.gain, CompiledWave.length, CompiledWave.conf, 0, 0>>

(***************************************************************************)
(* Pulse parameters and the config word.                                   *)
(***************************************************************************)
\* the keys a style requires and the keys it allows, as the class lists them
Required(style) ==
    {"style", "freq", "phase", "gain"}
    \cup (IF style \in {"const", "flat_top"} THEN {"length"} ELSE {})
    \cup (IF style \in {"arb", "flat_top"} THEN {"envelope"} ELSE {})

Allowed(style) ==
    Required(style) \cup {"phrst", "stdysel"}
    \cup (IF style \in {"const", "arb"} THEN {"mode"} ELSE {})
    \cup (IF style = "arb" THEN {"outsel"} ELSE {})

\* C24: check_params accepts a parameter set exactly when every required
\* parameter of its style is in it and none outside the required and optional
\* ones; it ends with the missing-parameter error when a required one is
\* absent and with the unsupported-parameter error when an unknown one is
\* present (the missing-parameter error when both hold).
C24_CheckParams ==
    last.op = "check_params" =>
        LET keys == DOMAIN last.args.params
            style == last.args.params.style
            missing == Required(style) \ keys # {}
            extra == keys \ Allowed(style) # {}
        IN  /\ last.err = "ok" <=> (~missing /\ ~extra)
            /\ missing => (last.err = "RuntimeError"
                            /\ last.msg = "missing required pulse parameter(s)")
            /\ (extra /\ ~missing) => (last.err = "RuntimeError"
                                        /\ last.msg = "unsupported pulse parameter(s)")

C24_Witness ==
    /\ last.op = "check_params"
    /\ last.args.params.style = "const"
    /\ DOMAIN last.args.params = {"style", "phase", "freq", "gain", "length", "outsel"}
    /\ last.msg = "unsupported pulse parameter(s)"

\* the flags of a cfg2reg call with the defaults filled in
FlagsOf(args) ==
    [outsel |-> IF args.outsel = <<>> THEN "product" ELSE args.outsel[1],
     mode |-> IF args.mode = <<>> THEN "oneshot" ELSE args.mode[1],
     stdysel |-> IF args.stdysel = <<>> THEN "zero" ELSE args.stdysel[1],
     phrst |-> IF args.phrst = <<>> THEN 0 ELSE args.phrst[1]]

ValidFlags(f) ==
    /\ f.outsel \in {"product", "dds", "input", "zero"}
    /\ f.mode \in {"oneshot", "periodic"}
    /\ f.stdysel \in {"last", "zero"}
    /\ f.phrst \in {0, 1}

ConfWord(f) ==
    f.phrst * 16 + (IF f.stdysel = "zero" THEN 8 ELSE 0)
    + (IF f.mode = "periodic" THEN 4 ELSE 0)
    + (CASE f.outsel = "product" -> 0 [] f.outsel = "dds" -> 1 [] f.outsel = "input" -> 2
         [] f.outsel = "zero" -> 3)

\* C27: for valid flags cfg2reg returns phrst*16 + stdysel*8 + mode*4 + outsel
\* with absent flags read as product, oneshot, zero and 0; the word is below
\* 32, and two calls whose flags differ return different words.
C27_Cfg2Reg ==
    [][(last'.op = "cfg2reg" /\ ValidFlags(FlagsOf(last'.args))) =>
          /\ last'.err = "ok"
          /\ last'.ret = ConfWord(FlagsOf(last'.args))
          /\ last'.ret \in 0..31
          /\ (last.op = "cfg2reg" /\ ValidFlags(FlagsOf(last.args))
              /\ FlagsOf(last.args) # FlagsOf(last'.args)) => last.ret # last'.ret]_vars

C27_Witness ==
    /\ last.op = "cfg2reg"
    /\ last.args = [outsel |-> <<>>, mode |-> <<"periodic">>, stdysel |-> <<>>,
                    phrst |-> <<1>>]
    /\ last.ret = 28

(***************************************************************************)
(* The pulse library.                                                      *)
(***************************************************************************)
\* the arrays an add_envelope call was given
GivenArrays(args) == args.idata \o args.qdata

\* C28: add_envelope fails when the number of samples is not a multiple of
\* the generator's samps_per_clk, and fails when a sample is larger in
\* absolute value than its maxv; whenever it fails, the envelopes and the
\* next free envelope address are what they were before the call.
C28_EnvelopeRejected ==
    [][last'.op = "add_envelope" =>
          LET args == last'.args
              given == GivenArrays(args)
              notMultiple == given # <<>>
                             /\ Len(given[1]) % gens[args.ch].samps_per_clk # 0
              tooLarge == \E d \in 1..Len(given) : \E k \in 1..Len(given[d]) :
                              Abs(given[d][k]) > gens[args.ch].maxv
          IN  /\ (notMultiple \/ tooLarge) => last'.err # "ok"
              /\ last'.err # "ok" => UNCHANGED <<envelopes, mgr_addr>>]_vars

C28_Witness ==
    /\ last.op = "add_envelope"
    /\ last.err = "ValueError"
    /\ last.args = [ch |-> 1, name |-> "e", idata |-> <<<<1, -3>>>>, qdata |-> <<<<4, 0>>>>]
    /\ mgr_addr[1] = 3
    /\ envelopes[1]["e"].length = 3

\* C22: after any add_pulse and add_wave calls, the index that wave2idx holds
\* for a wave name is the row of that wave in the table compile_waves()
\* returns, which lists self.waves in order.
C22_IndexIsRow ==
    \A n \in DOMAIN wave2idx :
        /\ wave2idx[n] + 1 \in 1..Len(waves)
        /\ waves[wave2idx[n] + 1].name = n

\* the call was add_pulse with every key its style requires and no other
ValidPulse(args, style) ==
    /\ args.params.style = style
    /\ DOMAIN args.params = PARAMS_REQUIRED(style)

C23_WitnessEmpty ==
    /\ last.op = "compile_waves"
    /\ last.err = "ok"
    /\ waves = <<>>
    /\ last.ret.shape = <<0, 8>>

\* C25: add_pulse of a const pulse with style, freq, phase, gain and length
\* succeeds and leaves the pulse with exactly one wave, of envelope address
\* 0, output selector dds and the length asked for.
C25_ConstPulse ==
    [][(last'.op = "add_pulse" /\ ValidPulse(last'.args, "const")) =>
          /\ last'.err = "ok"
          /\ last'.args.name \in DOMAIN pulses'
          /\ Len(pulses'[last'.args.name].waves) = 1
          /\ pulses'[last'.args.name].waves[1].env = 0
          /\ pulses'[last'.args.name].waves[1].conf % 4 = 1
          /\ pulses'[last'.args.name].waves[1].length = us2cycles(last'.args.params.length)
      ]_vars

\* C26: add_pulse of a flat_top pulse with every required parameter leaves
\* the pulse with exactly three waves: ramp up and ramp down with output
\* selector product, the flat part between them with output selector dds.
C26_FlatTopPulse ==
    [][(last'.op = "add_pulse" /\ ValidPulse(last'.args, "flat_top")
        /\ last'.args.params.envelope \in DOMAIN envelopes[last'.args.ch]) =>
          /\ last'.err = "ok"
          /\ Len(pulses'[last'.args.name].waves) = 3
          /\ pulses'[last'.args.name].waves[1].conf % 4 = 0
          /\ pulses'[last'.args.name].waves[2].conf % 4 = 1
          /\ pulses'[last'.args.name].waves[3].conf % 4 = 0
      ]_vars

\* a bulk transfer was made and the channel moved fewer bytes than asked
ShortTransfer == soc'.transfers = soc.transfers + 1 /\ soc'.transferred # soc'.requested

\* C29: a bulk DMA transfer whose transferred byte count differs from the
\* requested length is reported as a failure: the operation raises an error
\* and returns no data, on the receive paths (transfer_avg, transfer_buf) and
\* on the send paths (signal generator load, load_dmem).
C29_ShortTransferRaises ==
    [][(cls = "SOC" /\ ShortTransfer /\ last'.op \in {"transfer_avg", "transfer_buf", "load", "load_dmem"})
         => last'.err = "RuntimeError" /\ last'.ret = <<>>]_vars

\* the receive paths alone: transfer_avg and transfer_buf raise on a short transfer
C29_ReceiveChecked ==
    [][(cls = "SOC" /\ ShortTransfer /\ last'.op \in {"transfer_avg", "transfer_buf"})
         => last'.err = "RuntimeError" /\ last'.ret = <<>>]_vars

\* a send path went short and the call returned normally
C29_SendUnchecked ==
    /\ cls = "SOC"
    /\ last.op \in {"load", "load_dmem"}
    /\ soc.channel \in {"gen.dma.sendchannel", "tproc.dma.sendchannel"}
    /\ soc.transferred # soc.requested
    /\ last.err = "ok"

\* the identities an instance holds, and all it can reach through them
Ids(p) == {p[Fields(p.kind)[k]] : k \in 1..Len(Fields(p.kind))}
Separate(h) ==
    /\ \A i \in DOMAIN h.progs :
          /\ Cardinality(Ids(h.progs[i])) = Len(Fields(h.progs[i].kind))
          /\ Ids(h.progs[i]) \cap TableIds = {}
    /\ \A i, j \in DOMAIN h.progs : i # j => Ids(h.progs[i]) \cap Ids(h.progs[j]) = {}
Untouched(p) == \A id \in Ids(p) : heap'.objs[id] = heap.objs[id]

\* C30: two builder instances share no mutable state: an operation on one
\* instance leaves the instruction list, the label table, the timestamps and
\* the pulse library of every other instance as they were, and no operation
\* changes the class tables (instructions, op_codes, special_registers).
C30_NoSharedState ==
    [][cls = "HEAP" =>
         /\ Separate(heap')
         /\ \A id \in TableIds : heap'.objs[id] = heap.objs[id]
         /\ \A j \in DOMAIN heap.progs :
               j # last'.args.self =>
                   heap'.progs[j] = heap.progs[j] /\ Untouched(heap.progs[j])]_vars

\* both instances exist, the first holds instructions and the second has
\* just been changed by a call
C30_Witness ==
    /\ cls = "HEAP"
    /\ Len(heap.progs) = 2
    /\ heap.objs[heap.progs[1].prog_list] # <<>>
    /\ last.args.self = 2
    /\ last.op \in {"append_instruction", "end", "add_wave"}
    /\ heap.objs[heap.progs[2].prog_list] # heap.objs[heap.progs[1].prog_list]

\* the length a played pulse was declared with, in clocks of its channel
PlayedLength(call) ==
    IF cls = "V2" THEN pulses[call.args.name].length ELSE v1pulses[call.args.name].length

\* C31: after a played pulse, scheduled with t='auto' or with an explicit
\* time, the timestamp of its channel is at least the end time of the pulse,
\* the time it is played at plus its duration.
C31_TimestampCoversPulse ==
    [][(last'.op \in {"pulse", "const_pulse", "arb_pulse"} /\ last'.err = "ok") =>
          LET ch == last'.args.ch
              t == last'.args.t
              play == IF t.auto THEN Ts(ch) ELSE t.t
              after == IF cls = "V2" THEN gen_ts'[ch] ELSE dac_ts'[ch]
          IN  after * RateDen(ch) >= play * RateDen(ch) + PlayedLength(last') * RateNum]_vars

\* QickProgram.arb_pulse alone: the timestamp is the end time of the pulse
C31_ArbPulseCovers ==
    [][(last'.op = "arb_pulse" /\ last'.err = "ok") =>
          LET ch == last'.args.ch
              t == last'.args.t
              play == IF t.auto THEN dac_ts[ch] ELSE t.t
          IN  dac_ts'[ch] = play + v1pulses[last'.args.name].length]_vars

\* C32: align(chs) leaves the timestamp of every channel that is not in chs
\* unchanged, and appends no instruction.
C32_AlignFrame ==
    [][last'.op = "align" =>
          LET given == {last'.args.chs[i] : i \in 1..Len(last'.args.chs)}
          IN  /\ \A ch \in DOMAIN dac_ts \ given : dac_ts'[ch] = dac_ts[ch]
              /\ prog_list' = prog_list]_vars

\* align(chs) appends no instruction
C32_AlignAppendsNothing == [][last'.op = "align" => prog_list' = prog_list]_vars

\* the latest timestamp plus the extra time of sync_all(t), in tProc cycles
SyncAdvance(t) ==
    IF cls = "V2"
    THEN Max({gen_ts[ch] : ch \in DOMAIN gen_ts} \cup {ro_ts[ro] : ro \in DOMAIN ro_ts})
         + t * f_time
    ELSE Max({dac_ts[ch] : ch \in 1..8}) + t

\* C33: sync_all(t) appends exactly one time-advance instruction whose
\* operand is the maximum channel timestamp plus t when that sum is
\* positive, and appends no instruction when the sum is zero or negative.
C33_SyncAllAdvance ==
    [][last'.op = "sync_all" =>
          LET advance == SyncAdvance(last'.args.t)
          IN  IF advance > 0
              THEN /\ Len(prog_list') = Len(prog_list) + 1
                   /\ SubSeq(prog_list', 1, Len(prog_list)) = prog_list
                   /\ IF cls = "V2"
                      THEN /\ NewInst(1).CMD = "TIME"
                           /\ NewInst(1).DST = <<"inc_ref", 0>>
                           /\ NewInst(1).LIT = advance
                      ELSE /\ NewInst(1).name = "synci"
                           /\ NewInst(1).imm = ToWide(advance)
              ELSE prog_list' = prog_list]_vars

\* sync_all(-1) has just appended an advance that is shorter than the
\* latest timestamp was
C33_Witness ==
    /\ last.op = "sync_all"
    /\ last.args.t < 0
    /\ last.args.advanced
    /\ Len(prog_list) >= 2
    /\ IF cls = "V2" THEN prog_list[Len(prog_list)].CMD = "TIME"
       ELSE prog_list[Len(prog_list)].name = "synci"

\* sync_all found nothing to advance and appended nothing
C33_WitnessNoAdvance ==
    /\ last.op = "sync_all"
    /\ ~last.args.advanced
    /\ prog_list # <<>>

\* the readouts a trigger call lists
Listed(call) == {call.args.ros[i] : i \in 1..Len(call.args.ros)}

\* C34: trigger(ros, t) completes for every time t and sets the timestamp of
\* every readout in ros to t, in cycles, plus that readout's configured
\* length; a t earlier than a readout's timestamp only warns; the call never
\* leaves some of the listed readouts updated and others not.
C34_TriggerCompletes ==
    [][last'.op = "trigger" =>
          /\ last'.err = "ok"
          /\ \A ro \in Listed(last') :
                ro_ts'[ro] = IntTrunc(last'.args.t * f_time * readouts[ro].f_fabric
                                      + ro_chs[ro].length * f_time,
                                      readouts[ro].f_fabric)]_vars

\* a trigger call that raised after it had moved one of its readouts
C34_PartlyUpdated ==
    /\ last.op = "trigger"
    /\ last.err # "ok"
    /\ \E ro \in Listed(last) : ro_ts[ro] = last.args.t * f_time + 3
    /\ \E ro \in Listed(last) : ro_ts[ro] > last.args.t * f_time + 3

\* what a trigger call asks for: the bits of each direct-bit port and the
\* pulsed-trigger ports, from the configuration of its readouts and pins
PinsOf(call) == {call.args.pins[i] : i \in 1..Len(call.args.pins)}
AskedBits(call, port) ==
    {readouts[ro].trigger_bit :
        ro \in {r \in Listed(call) : readouts[r].trigger_type = "dport"
                                     /\ readouts[r].trigger_port = port}}
    \cup {output_pins[pin].pinnum :
        pin \in {p \in PinsOf(call) : output_pins[p].porttype = "dport"
                                      /\ output_pins[p].portnum = port}}
BitPorts(call) == {port \in 0..3 : AskedBits(call, port) # {}}
TrigPorts(call) ==
    {readouts[ro].trigger_port : ro \in {r \in Listed(call) : readouts[r].trigger_type # "dport"}}
    \cup {output_pins[pin].portnum : pin \in {p \in PinsOf(call) : output_pins[p].porttype # "dport"}}

RECURSIVE OrOf(_)
OrOf(S) == IF S = {} THEN 0 ELSE LET b == CHOOSE x \in S : TRUE
                                 IN  2^b + OrOf(S \ {b})

IsTimeWrite(inst, time) ==
    inst.CMD = "REG_WR" /\ inst.DST = <<"s", 14>> /\ inst.SRC = "imm" /\ inst.LIT = time

\* C35: trigger emits, for the direct-bit ports, one time-register write of
\* t, one set-write per distinct port carrying the OR of the bits asked on
\* it, one time-register write of t + width and one clear-write per distinct
\* port, every set-write before every clear-write; for each pulsed-trigger
\* port one TRIG set at t immediately followed by one TRIG clr at t + width;
\* a port that is set is cleared by the same call.
C35_TriggerEmits ==
    [][(last'.op = "trigger" /\ last'.err = "ok") =>
          LET treg == last'.args.t * f_time
              till == treg + DefaultWidth
              D == BitPorts(last')
              T == TrigPorts(last')
              nd == Cardinality(D)
              base == IF nd = 0 THEN 0 ELSE 2 * nd + 2
          IN  /\ Len(prog_list') = Len(prog_list) + base + 2 * Cardinality(T)
              /\ nd > 0 =>
                    /\ IsTimeWrite(NewInst(1), treg)
                    /\ IsTimeWrite(NewInst(nd + 2), till)
                    /\ \A port \in D :
                          /\ \E k \in 2..(nd + 1) :
                                /\ NewInst(k).CMD = "DPORT_WR"
                                /\ NewInst(k).DST = <<"#", port>>
                                /\ NewInst(k).DATA = OrOf(AskedBits(last', port))
                          /\ \E k \in (nd + 3)..(2 * nd + 2) :
                                /\ NewInst(k).CMD = "DPORT_WR"
                                /\ NewInst(k).DST = <<"#", port>>
                                /\ NewInst(k).DATA = 0
              /\ \A port \in T :
                    \E k \in 1..Cardinality(T) :
                        /\ NewInst(base + 2 * k - 1) =
                              [CMD |-> "TRIG", SRC |-> "set", DST |-> <<"#", port>>,
                               TIME |-> treg,
                               P_ADDR |-> NewInst(base + 2 * k - 1).P_ADDR,
                               LINE |-> NewInst(base + 2 * k - 1).LINE]
                        /\ NewInst(base + 2 * k).CMD = "TRIG"
                        /\ NewInst(base + 2 * k).SRC = "clr"
                        /\ NewInst(base + 2 * k).DST = <<"#", port>>
                        /\ NewInst(base + 2 * k).TIME = till]_vars

\* a call that set two bits of one port, a second direct-bit port and a
\* pulsed-trigger port
C35_Witness ==
    /\ last.op = "trigger"
    /\ last.err = "ok"
    /\ \E port \in BitPorts(last) : Cardinality(AskedBits(last, port)) = 2
    /\ TrigPorts(last) # {}
    /\ Len(prog_list) >= 6

\* a call that wrote two distinct direct-bit ports
C35_WitnessTwoPorts ==
    /\ last.op = "trigger"
    /\ last.err = "ok"
    /\ Cardinality(BitPorts(last)) = 2

InRange(length) == length >= 3 /\ length < 65536

\* the length, in cycles, of the waves an add_pulse call asks for: the
\* envelope's for arb, the given one for const and flat_top
AskedLength(call) ==
    LET params == call.args.params
        ch == call.args.ch
    IN  IF params.style = "arb"
        THEN envelopes[ch][params.envelope].length \div gens[ch].samps_per_clk
        ELSE params.length * f_time

Buildable(call) ==
    /\ check_params(call.args.params).err = "ok"
    /\ "envelope" \in DOMAIN call.args.params =>
          call.args.params.envelope \in DOMAIN envelopes[call.args.ch]

\* C36: every wave in the wave table has a length in [3, 2^16): building a
\* wave with a length below 3 or of 2^16 and more fails with a range error,
\* for every pulse style that creates waves.
C36_LengthInRange ==
    [][/\ \A k \in 1..Len(waves') : InRange(waves'[k].wave.length)
       /\ (last'.op = "add_pulse" /\ Buildable(last') /\ ~InRange(AskedLength(last')))
             => last'.err = "RuntimeError"
       /\ last'.op = "params2wave" =>
             (last'.err = "RuntimeError") = ~InRange(last'.args.lenreg)]_vars

\* params2wave and the arb style alone: the range error is raised exactly
\* for the lengths out of range, and no wave out of range is registered
C36_ArbLengthInRange ==
    [][/\ \A k \in 1..Len(waves') : InRange(waves'[k].wave.length)
       /\ (last'.op = "add_pulse" /\ Buildable(last') /\ last'.args.params.style = "arb")
             => (last'.err = "RuntimeError") = ~InRange(AskedLength(last'))
       /\ last'.op = "params2wave" =>
             (last'.err = "RuntimeError") = ~InRange(last'.args.lenreg)]_vars

\* a flat_top pulse of one cycle was accepted
C36_ShortFlatTopAccepted ==
    /\ last.op = "add_pulse"
    /\ last.args.params.style = "flat_top"
    /\ last.args.params.length = 1
    /\ last.err = "ok"

\* C37: an instruction whose mnemonic is not in the instruction table is
\* rejected when it is appended, through the per-mnemonic methods or through
\* append_instruction: no entry of the instruction list has an unknown
\* mnemonic.
C37_OnlyKnownMnemonics ==
    cls = "V1" => \A i \in 1..Len(prog_list) : prog_list[i].name \in mnemonics

\* the per-mnemonic methods alone: a name that is not in the table is
\* rejected at the call and nothing is appended
C37_MethodRejects ==
    [][(last'.op = "__getattr__" /\ last'.args.inst.name \notin mnemonics) =>
          last'.err = "AttributeError" /\ prog_list' = prog_list]_vars

\* the unknown mnemonic is found only when the program is compiled
C37_RejectedAtCompile ==
    /\ cls = "V1"
    /\ last.op = "compile"
    /\ last.err = "KeyError"
    /\ \E i \in 1..Len(prog_list) : prog_list[i].name \notin mnemonics
    /\ \A i \in 1..Len(prog_list) :
          prog_list[i].name \in {"loopnz", "condj"} => JumpTarget(prog_list[i]) \in DOMAIN labels

\* C38: a new_reg call that fails (address out of range, address taken,
\* registers full, duplicate name) leaves the allocated addresses and the
\* register table as they were: a failed call consumes no address.
C38_FailedNewRegFrame ==
    [][(last'.op = "new_reg" /\ last'.err # "ok") =>
          user_regs' = user_regs /\ user_reg_dict' = user_reg_dict]_vars

\* the failures raised before the address is recorded change nothing
C38_AddressFailuresFrame ==
    [][(last'.op = "new_reg" /\ last'.err \in {"ValueError", "RuntimeError"}) =>
          user_regs' = user_regs /\ user_reg_dict' = user_reg_dict]_vars

\* a call rejected for its name has left an address allocated to no register
C38_AddressConsumed ==
    /\ last.op = "new_reg"
    /\ last.err = "NameError"
    /\ \E k \in 1..Len(user_regs) :
          \A nm \in DOMAIN user_reg_dict : user_reg_dict[nm] # user_regs[k]

\* the names in the wave table
WaveNames(ws) == {ws[k].name : k \in 1..Len(ws)}

\* C39: an add_pulse call that fails (missing or unsupported parameter,
\* unknown envelope, wave length out of range) leaves the pulse library, the
\* wave table and the wave index map unchanged; a call that succeeds
\* registers the pulse together with all of its waves.
C39_FailedAddPulseFrame ==
    [][last'.op = "add_pulse" =>
          IF last'.err # "ok"
          THEN pulses' = pulses /\ waves' = waves /\ wave2idx' = wave2idx
          ELSE LET p == pulses'[last'.args.name]
               IN  /\ Len(p.wavenames) = Len(p.waves)
                   /\ \A k \in 1..Len(p.wavenames) :
                         /\ p.wavenames[k] \in WaveNames(waves')
                         /\ p.wavenames[k] \in DOMAIN wave2idx']_vars

\* add_pulse has just failed on the envelope or on the length of its wave,
\* on a library that holds a pulse and its wave
C39_Witness ==
    /\ last.op = "add_pulse"
    /\ last.err \in {"KeyError", "RuntimeError"}
    /\ check_params(last.args.params).err = "ok"
    /\ pulses # <<>>
    /\ waves # <<>>

\* add_pulse has just failed on its parameters
C39_WitnessParams ==
    /\ last.op = "add_pulse"
    /\ check_params(last.args.params).err # "ok"
    /\ pulses # <<>>

\* the opcode byte of a machine word
OpcodeBits(word) == {b \in word : b >= 56}

\* C40: compile() leaves the instruction list and the label table as they
\* were; it returns one word per instruction, the word at each position being
\* that of the instruction at that position, or raises and returns no word;
\* compiling twice in a row gives the same outcome and the same words.
C40_CompileFrame ==
    [][last'.op = "compile" =>
          /\ prog_list' = prog_list
          /\ labels' = labels
          /\ IF last'.err = "ok"
             THEN /\ Len(last'.ret) = Len(prog_list)
                  /\ \A i \in 1..Len(prog_list) :
                        /\ last'.ret[i] = mcode(prog_list[i], labels)
                        /\ OpcodeBits(last'.ret[i])
                              = shl(bits(ToWide(bin(prog_list[i].name))), 56)
             ELSE last'.ret = <<>>
          /\ last.op = "compile" =>
                last'.err = last.err /\ last'.ret = last.ret]_vars

\* compile() has just returned the words of a program whose first and last
\* instructions differ in their mnemonic
C40_Witness ==
    /\ last.op = "compile"
    /\ last.err = "ok"
    /\ Len(prog_list) >= 2
    /\ prog_list[1].name # prog_list[Len(prog_list)].name
    /\ Len(last.ret) = Len(prog_list)

\* compile() has just raised on a program whose first instruction compiles
C40_WitnessRaised ==
    /\ last.op = "compile"
    /\ last.err # "ok"
    /\ Len(prog_list) >= 2
    /\ compile_instruction(prog_list[1], labels) = "ok"

====
